---- MODULE Spec2Model ----
(***************************************************************************)
(* A model of the thalex quoter: the quote engine (update_quotes), the     *)
(* order reconciler (adjust_order, _insert_new_order,                      *)
(* cancel_order_if_exists), the cooldown tracker (_on_order_update), the   *)
(* message pipeline (websocket_receiver, start_message_processing,         *)
(* process_message, handle_notification) and desync recovery.              *)
(*                                                                         *)
(* Scheduling: asyncio runs one task at a time and switches tasks only at  *)
(* an await that really suspends (an exchange-client call, a sleep, a get  *)
(* on an empty queue).  Every action below is the code one task runs       *)
(* between two such points.                                                *)
(*                                                                         *)
(* Numbers: prices, sizes, positions, spreads and volatilities are exact   *)
(* rationals <<numerator, denominator>> in the units of the source (USD,   *)
(* contracts, basis points).  Times are whole seconds.                     *)
(***************************************************************************)
EXTENDS Integers, Sequences, FiniteSets, TLC

\* ------------------------------------------------------------------------
\* Exact rational arithmetic (the source computes in floats)
\* ------------------------------------------------------------------------

Abs(n) == IF n < 0 THEN -n ELSE n

RECURSIVE GCD(_, _)
GCD(a, b) == IF b = 0 THEN a ELSE GCD(b, a % b)

\* The rational n/d in lowest terms with a positive denominator.
Rat(n, d) ==
    LET s == IF d < 0 THEN -1 ELSE 1
        g == GCD(Abs(n), Abs(d))
    IN  <<(s * n) \div g, (s * d) \div g>>

Num(n) == <<n, 1>>

RAdd(a, b) ==
    LET g == GCD(a[2], b[2])
    IN  Rat(a[1] * (b[2] \div g) + b[1] * (a[2] \div g), (a[2] \div g) * b[2])

RNeg(a) == <<-a[1], a[2]>>

RSub(a, b) == RAdd(a, RNeg(b))

\* Cross-cancelling keeps the intermediate products small.
RMul(a, b) ==
    LET g1 == GCD(Abs(a[1]), b[2])
        g2 == GCD(Abs(b[1]), a[2])
    IN  Rat((a[1] \div g1) * (b[1] \div g2), (a[2] \div g2) * (b[2] \div g1))

RDiv(a, b) == RMul(a, IF b[1] < 0 THEN <<-b[2], -b[1]>> ELSE <<b[2], b[1]>>)

RLt(a, b) == a[1] * b[2] < b[1] * a[2]

RLe(a, b) == a[1] * b[2] <= b[1] * a[2]

RAbs(a) == <<Abs(a[1]), a[2]>>

RMin(a, b) == IF RLt(b, a) THEN b ELSE a

RMax(a, b) == IF RLt(a, b) THEN b ELSE a

\* A variant of round(x) that goes to the integer above in every case.
PyRoundAbove(a) == (a[1] \div a[2]) + 1

\* Python's round(x): to the nearest integer, ties to the even one.
PyRound(a) ==
    LET q == a[1] \div a[2]
        r == a[1] % a[2]
    IN  IF 2 * r < a[2] THEN q
        ELSE IF 2 * r > a[2] THEN q + 1
        ELSE IF q % 2 = 0 THEN q ELSE q + 1

\* ------------------------------------------------------------------------
\* config.py
\* ------------------------------------------------------------------------

\* None for an optional number or time: a number is <<n, d>>, a time is <<t>>.
None == <<>>

price_tick == <<1, 1>>
size_tick == <<1, 1000>>
min_spread_bps == <<1, 2>>
max_spread_bps == <<5, 2>>
volatility_multiplier == <<1, 2>>
bid_fill_cooldown == 5
ask_fill_cooldown == 5
bid_fill_recovery == 30
ask_fill_recovery == 30
recovery_spread_multiplier == <<3, 1>>
amend_threshold == 5
size == <<1, 100>>
max_position == <<3, 10>>

BidId == 1001
AskId == 1002

Slots == {BidId, AskId}

\* cfg.instrument and cfg.order_label
OwnInstrument == "BTC-PERPETUAL"
OwnLabel == "simple_quoter"

\* ------------------------------------------------------------------------
\* utils.py
\* ------------------------------------------------------------------------

round_to_tick(value) == RMul(price_tick, Num(PyRound(RDiv(value, price_tick))))

round_size(sz) == RMul(size_tick, Num(PyRound(RDiv(sz, size_tick))))

\* round_size multiplies in IEEE doubles.  The double cfg.size_tick = 0.001 is
\* m / 2^62 with the 53-bit mantissa m = (2^62 + 96) / 1000; its ten low bits
\* are 508.  The product 0.001 * n is m * n rounded to 53 bits, ties to even.
SizeTickExcess == 96

SizeTickLowBits == 508

RECURSIVE Pow2(_)
Pow2(k) == IF k = 0 THEN 1 ELSE 2 * Pow2(k - 1)

\* The number of low bits of m * n the rounding to 53 bits drops.
DroppedBits(n) ==
    CHOOSE k \in 0..9 : 1024 * n >= 1000 * Pow2(k) /\ 1024 * n < 1000 * Pow2(k + 1)

\* F + num/den rounded to an integer, ties to even, less F; odd is F's parity.
RoundedFrom(odd, num, den) ==
    LET q == IF num >= 0 THEN num \div den ELSE -((-num + den - 1) \div den)
        r == num - q * den
    IN  IF 2 * r < den THEN q
        ELSE IF 2 * r > den THEN q + 1
        ELSE IF (odd + q) % 2 = 0 THEN q ELSE q + 1

\* The double 0.001 * n is the double nearest to n/1000, the one that is
\* written as the decimal n/1000 (0.009); otherwise it is a neighbour
\* (0.001 * 9 is 0.009000000000000001).  With P = m * n = F * 2^s + r:
\* the product is F plus r/2^s rounded, and n/1000 * 2^62 = P - 96n/1000.
SizeProductIsTickMultiple(n) ==
    n = 0 \/
    LET s == DroppedBits(n)
        low == (SizeTickLowBits * n) % Pow2(s + 1)
        r == low % Pow2(s)
        odd == low \div Pow2(s)
    IN  RoundedFrom(odd, r, Pow2(s))
          = RoundedFrom(odd, 1000 * r - SizeTickExcess * n, 1000 * Pow2(s))

\* ------------------------------------------------------------------------
\* The quote engine: update_quotes, from the base spread to the sizes
\* ------------------------------------------------------------------------

\* A variant of the base spread that leaves volatility_multiplier out.
BaseSpreadNoMultiplier(vol) ==
    IF vol # None
    THEN RAdd(min_spread_bps, RMul(RSub(max_spread_bps, min_spread_bps), vol))
    ELSE min_spread_bps

BaseSpread(vol) ==
    IF vol # None
    THEN RAdd(min_spread_bps,
              RMul(RMul(RSub(max_spread_bps, min_spread_bps), vol),
                   volatility_multiplier))
    ELSE min_spread_bps

\* A variant that does not clamp the position to the limits.
PositionFactorUnclamped(P) ==
    LET ratio == RDiv(RAbs(P), max_position)
    IN  RMul(ratio, ratio)

PositionFactor(P) ==
    LET clamped_P == RMax(RMin(P, max_position), RNeg(max_position))
        ratio == RDiv(RAbs(clamped_P), max_position)
    IN  RMul(ratio, ratio)

\* bid_spread and ask_spread, recovery multiplier applied.
BidSpread(vol, P, bid_in_recovery) ==
    LET base_spread == BaseSpread(vol)
        skewed == IF RLt(Num(0), P)
                  THEN RMul(base_spread, RAdd(Num(1), PositionFactor(P)))
                  ELSE base_spread
    IN  IF bid_in_recovery THEN RMul(skewed, recovery_spread_multiplier) ELSE skewed

AskSpread(vol, P, ask_in_recovery) ==
    LET base_spread == BaseSpread(vol)
        skewed == IF RLt(P, Num(0))
                  THEN RMul(base_spread, RAdd(Num(1), PositionFactor(P)))
                  ELSE base_spread
    IN  IF ask_in_recovery THEN RMul(skewed, recovery_spread_multiplier) ELSE skewed

\* A variant of the crossing guard that lets a bid equal to best_bid stand.
BidPriceStrictGuard(new_mid, best_bid, bid_spread) ==
    LET bid_price == round_to_tick(
            RSub(new_mid, RMul(RDiv(bid_spread, Num(10000)), new_mid)))
    IN  IF best_bid # None /\ RLt(best_bid, bid_price)
        THEN round_to_tick(RSub(best_bid, price_tick))
        ELSE bid_price

\* A variant whose crossing protection moves the bid one tick above best_bid.
BidPriceGuardAbove(new_mid, best_bid, bid_spread) ==
    LET bid_price == round_to_tick(
            RSub(new_mid, RMul(RDiv(bid_spread, Num(10000)), new_mid)))
    IN  IF best_bid # None /\ RLe(best_bid, bid_price)
        THEN round_to_tick(RAdd(best_bid, price_tick))
        ELSE bid_price

BidPrice(new_mid, best_bid, bid_spread) ==
    LET bid_price == round_to_tick(
            RSub(new_mid, RMul(RDiv(bid_spread, Num(10000)), new_mid)))
    IN  IF best_bid # None /\ RLe(best_bid, bid_price)
        THEN round_to_tick(RSub(best_bid, price_tick))
        ELSE bid_price

AskPrice(new_mid, best_ask, ask_spread) ==
    LET ask_price == round_to_tick(
            RAdd(new_mid, RMul(RDiv(ask_spread, Num(10000)), new_mid)))
    IN  IF best_ask # None /\ RLe(ask_price, best_ask)
        THEN round_to_tick(RAdd(best_ask, price_tick))
        ELSE ask_price

AdjustedSize(vol) ==
    LET size_scale == IF vol # None
                      THEN RDiv(Num(1), RAdd(Num(1), RMul(vol, volatility_multiplier)))
                      ELSE Num(1)
    IN  RMul(size, size_scale)

\* A variant of the bid size without the branch for a position at or beyond
\* max_position and without the floor at 0.
BidSizeUnclamped(vol, P) ==
    round_size(RMin(AdjustedSize(vol), RSub(max_position, P)))

BidSize(vol, P) ==
    IF RLe(max_position, P)
    THEN Num(0)
    ELSE round_size(RMax(RMin(AdjustedSize(vol), RSub(max_position, P)), Num(0)))

AskSize(vol, P) ==
    IF RLe(max_position, P)
    THEN round_size(RMax(RMin(AdjustedSize(vol), RAdd(max_position, P)), Num(0)))
    ELSE IF RLe(P, RNeg(max_position))
    THEN Num(0)
    ELSE round_size(RMax(RMin(AdjustedSize(vol), RAdd(max_position, P)), Num(0)))

\* ------------------------------------------------------------------------
\* Bounds of the model
\* ------------------------------------------------------------------------

\* frames the exchange client delivers in one run of Spec
MaxFrames == 4
\* frames the exchange client delivers in one run of SpecPipeline
MaxPipelineFrames == 3
\* update_quotes tasks spawned in one run
MaxTasks == 2
\* recovery tasks ever spawned
MaxRecoveries == 2
\* frames the exchange client delivers in one run of SpecRecovery
MaxRecoveryFrames == 3
\* frames the exchange client delivers in one run of SpecAdjust
MaxAdjustFrames == 3
\* frames the exchange client delivers in one run of SpecCooldown
MaxCooldownFrames == 3
\* frames the exchange client delivers in one run of SpecEngine
MaxEngineFrames == 2

\* calls of connect_and_authenticate
MaxConnects == 2
\* the arguments of a rounding function are the quarter ticks up to this many
MaxQuarters == 30
\* requests the ticker loop and the account-summary loop send
MaxRequests == 4
MaxRestartFrames == 2
MaxCancelFrames == 4
MaxMalformedFrames == 3
\* tenths of a size tick between a position and the nearer limit
MaxTenths == 25
\* order notifications delivered in one run of SpecDesync
MaxDesyncFrames == 2
\* order notifications delivered in one run of SpecFills
MaxFillFrames == 2

\* ------------------------------------------------------------------------
\* State
\* ------------------------------------------------------------------------

VARIABLES
    \* Quoter
    quotes,                  \* client_order_id -> cached order (status, price)
    position,
    mid,
    last_bid_spread,
    last_ask_spread,
    current_volatility,
    last_bid_fill_time,
    last_ask_fill_time,
    bid_cooldown_until,
    ask_cooldown_until,
    bid_recovery_until,
    ask_recovery_until,
    recovering_from_desync,
    \* WebSocketHandler
    message_queue,
    is_running,
    authenticated,
    consecutive_errors,
    receiver,                \* the receiver task: "none", "running" (in tlx.receive()),
                             \* "reconnecting", "retrying" (asleep after a failed
                             \* reconnect, then at the top of its loop), "stopped"
    dispatcher,              \* start_message_processing: "idle", "running", "ended"
    \* tasks made with asyncio.create_task
    uq,                      \* the update_quotes tasks, in creation order
    rec,                     \* the recover_from_state_desync tasks, in creation order
    conn,                    \* the connect_and_authenticate call
    loops,                   \* ticker_loop and account_summary_loop
    \* time.time()
    now,
    \* history
    received,                \* frames obtained from tlx.receive() so far
    dispLog,                 \* ids of the frames handed to process_message, in order
    modSeq,                  \* notifications so far that assigned quoter state
    last,                    \* per slot, the reconciliation that finished last
    requests,                \* the requests the two loops sent so far
    calc,                    \* the last call of a pure function: argument and results
    \* quote()
    retry_count,             \* the lifecycles quote() has been through
    \* main()
    main_pc,                 \* "quote" (in quoter.quote()), "sleep" (line 556),
                             \* "ended" (main() was interrupted and has cleaned up)
    periodic,                \* the four background tasks of quote(): the live
                             \* instances of each, and how far the loop that
                             \* cancels them (line 498) has come
    cleanup_log              \* history: what cleanup() requested, in order

quoterVars == <<quotes, position, mid, last_bid_spread, last_ask_spread, current_volatility>>

coolVars == <<last_bid_fill_time, last_ask_fill_time, bid_cooldown_until,
              ask_cooldown_until, bid_recovery_until, ask_recovery_until>>

pipeVars == <<message_queue, is_running, authenticated, consecutive_errors,
              receiver, dispatcher>>

histVars == <<received, dispLog, modSeq, last>>

sessVars == <<conn, loops, requests, calc, retry_count, main_pc, periodic, cleanup_log>>

vars == <<quoterVars, coolVars, recovering_from_desync, pipeVars, uq, rec, now, histVars,
          sessVars>>

\* ------------------------------------------------------------------------
\* Frames
\* ------------------------------------------------------------------------

\* A parsed frame: the keys present and the values under them.
Msg(keys, channel_name, notification, result, error) ==
    [parsable |-> TRUE, keys |-> keys, channel_name |-> channel_name,
     notification |-> notification, result |-> result, error |-> error]

NoResult == [keys |-> {}, best_bid_price |-> None, best_ask_price |-> None]

\* A frame json.loads rejects.
Unparsable ==
    [parsable |-> FALSE, keys |-> {}, channel_name |-> "", notification |-> <<>>,
     result |-> NoResult, error |-> ""]

OrdersFrame(orders) == Msg({"channel_name"}, "session.orders", orders, NoResult, "")

PortfolioFrame(entries) == Msg({"channel_name"}, "account.portfolio", entries, NoResult, "")

TradesFrame(trades) == Msg({"channel_name"}, "trades", trades, NoResult, "")

TickerFrame(bb, ba) ==
    Msg({"result"}, "", <<>>,
        [keys |-> {"best_bid_price", "best_ask_price"},
         best_bid_price |-> bb, best_ask_price |-> ba], "")

AccountSummaryFrame ==
    Msg({"result"}, "", <<>>,
        [keys |-> {"account_number"}, best_bid_price |-> None, best_ask_price |-> None], "")

ErrorFrame(message) == Msg({"error"}, "", <<>>, NoResult, message)

\* The queue's sentinel (None in the source).
Sentinel == [id |-> 0, sentinel |-> TRUE, msg |-> Unparsable]

Queued(n, m) == [id |-> n, sentinel |-> FALSE, msg |-> m]

\* process_message: the channel it passes to the notification handler, or
\* "" when it calls no handler.
Channel(msg) ==
    IF ~msg.parsable THEN ""
    ELSE IF "channel_name" \in msg.keys THEN msg.channel_name
    ELSE IF "result" \in msg.keys
         THEN IF "account_number" \in msg.result.keys THEN "account.summary"
              ELSE IF {"best_bid_price", "best_ask_price"} \subseteq msg.result.keys
                   THEN "ticker"
                   ELSE ""
    ELSE IF "error" \in msg.keys THEN "error"
    ELSE ""

\* ------------------------------------------------------------------------
\* The order cache
\* ------------------------------------------------------------------------

\* A cached order.  The source also stores the direction, which no code reads
\* back except to log it.
Order(status, price) == [status |-> status, price |-> price]

\* confirmed = self.quotes.get(client_order_id, {}) with its .get defaults
NoEntry == Order("", Num(0))

CacheGet(q, id) == IF id \in DOMAIN q THEN q[id] ELSE NoEntry

CachePut(q, id, e) == [k \in DOMAIN q \cup {id} |-> IF k = id THEN e ELSE q[k]]

IsOpen(status) == status \in {"open", "partially_filled"}

\* ------------------------------------------------------------------------
\* Notification callbacks of the Quoter
\* ------------------------------------------------------------------------

\* The quoter state _on_order_update writes, as one record.
OrderState ==
    [quotes |-> quotes,
     last_bid_fill_time |-> last_bid_fill_time,
     last_ask_fill_time |-> last_ask_fill_time,
     bid_cooldown_until |-> bid_cooldown_until,
     ask_cooldown_until |-> ask_cooldown_until,
     bid_recovery_until |-> bid_recovery_until,
     ask_recovery_until |-> ask_recovery_until]

\* A variant of _on_order_update that, for a side still cooling down, counts
\* the new windows from the end of the running cooldown.
OnOrderUpdateAccumulating(s, order, fill_time) ==
    LET s1 == [s EXCEPT !.quotes =
                   CachePut(s.quotes, order.client_order_id,
                            Order(order.status, order.price))]
        from(until) == IF until # None /\ fill_time < until[1] THEN until[1] ELSE fill_time
    IN  IF order.status # "filled" THEN s1
        ELSE IF order.client_order_id = BidId
        THEN [s1 EXCEPT !.last_bid_fill_time = <<fill_time>>,
                        !.bid_cooldown_until = <<from(s.bid_cooldown_until) + bid_fill_cooldown>>,
                        !.bid_recovery_until =
                            <<from(s.bid_cooldown_until) + bid_fill_cooldown + bid_fill_recovery>>]
        ELSE IF order.client_order_id = AskId
        THEN [s1 EXCEPT !.last_ask_fill_time = <<fill_time>>,
                        !.ask_cooldown_until = <<from(s.ask_cooldown_until) + ask_fill_cooldown>>,
                        !.ask_recovery_until =
                            <<from(s.ask_cooldown_until) + ask_fill_cooldown + ask_fill_recovery>>]
        ELSE s1

\* A variant of _on_order_update with the two windows the other way round.
OnOrderUpdateWindowsSwapped(s, order, fill_time) ==
    LET s1 == [s EXCEPT !.quotes =
                   CachePut(s.quotes, order.client_order_id,
                            Order(order.status, order.price))]
    IN  IF order.status # "filled" THEN s1
        ELSE IF order.client_order_id = BidId
        THEN [s1 EXCEPT !.last_bid_fill_time = <<fill_time>>,
                        !.bid_cooldown_until =
                            <<fill_time + bid_fill_cooldown + bid_fill_recovery>>,
                        !.bid_recovery_until = <<fill_time + bid_fill_cooldown>>]
        ELSE IF order.client_order_id = AskId
        THEN [s1 EXCEPT !.last_ask_fill_time = <<fill_time>>,
                        !.ask_cooldown_until =
                            <<fill_time + ask_fill_cooldown + ask_fill_recovery>>,
                        !.ask_recovery_until = <<fill_time + ask_fill_cooldown>>]
        ELSE s1

\* A variant that takes a partial fill for a fill.
OnOrderUpdatePartialFill(s, order, fill_time) ==
    LET s1 == [s EXCEPT !.quotes =
                   CachePut(s.quotes, order.client_order_id,
                            Order(order.status, order.price))]
    IN  IF order.status \notin {"filled", "partially_filled"} THEN s1
        ELSE IF order.client_order_id = BidId
        THEN [s1 EXCEPT !.last_bid_fill_time = <<fill_time>>,
                        !.bid_cooldown_until = <<fill_time + bid_fill_cooldown>>,
                        !.bid_recovery_until =
                            <<fill_time + bid_fill_cooldown + bid_fill_recovery>>]
        ELSE IF order.client_order_id = AskId
        THEN [s1 EXCEPT !.last_ask_fill_time = <<fill_time>>,
                        !.ask_cooldown_until = <<fill_time + ask_fill_cooldown>>,
                        !.ask_recovery_until =
                            <<fill_time + ask_fill_cooldown + ask_fill_recovery>>]
        ELSE s1

\* _on_order_update(client_order_id, order_data), fill_time being the clock
\* _handle_orders_update read.
OnOrderUpdate(s, order, fill_time) ==
    LET s1 == [s EXCEPT !.quotes =
                   CachePut(s.quotes, order.client_order_id,
                            Order(order.status, order.price))]
    IN  IF order.status # "filled" THEN s1
        ELSE IF order.client_order_id = BidId
        THEN [s1 EXCEPT !.last_bid_fill_time = <<fill_time>>,
                        !.bid_cooldown_until = <<fill_time + bid_fill_cooldown>>,
                        !.bid_recovery_until =
                            <<fill_time + bid_fill_cooldown + bid_fill_recovery>>]
        ELSE IF order.client_order_id = AskId
        THEN [s1 EXCEPT !.last_ask_fill_time = <<fill_time>>,
                        !.ask_cooldown_until = <<fill_time + ask_fill_cooldown>>,
                        !.ask_recovery_until =
                            <<fill_time + ask_fill_cooldown + ask_fill_recovery>>]
        ELSE s1

\* _handle_orders_update: the loop over the notification's orders; an order
\* without a client_order_id (0 here) is skipped.
RECURSIVE HandleOrdersUpdate(_, _, _)
HandleOrdersUpdate(s, notification, t) ==
    IF notification = <<>> THEN s
    ELSE LET order == Head(notification)
             s1 == IF order.client_order_id # 0 THEN OnOrderUpdate(s, order, t) ELSE s
         IN  HandleOrdersUpdate(s1, Tail(notification), t)

\* A variant that takes the position of the first entry, whatever instrument
\* it is for.
HandlePortfolioUpdateFirstEntry(pos, notification) ==
    IF notification = <<>> THEN pos ELSE Head(notification).position

\* _handle_portfolio_update: the position of the first entry for the quoted
\* instrument, or the position unchanged (StopIteration).
RECURSIVE HandlePortfolioUpdate(_, _)
HandlePortfolioUpdate(pos, notification) ==
    IF notification = <<>> THEN pos
    ELSE IF Head(notification).instrument_name = OwnInstrument
         THEN Head(notification).position
         ELSE HandlePortfolioUpdate(pos, Tail(notification))

\* A variant of the loop that matches a trade by its instrument alone.
RECURSIVE TradeCallbacksAnyLabel(_)
TradeCallbacksAnyLabel(trades) ==
    IF trades = <<>> THEN 0
    ELSE IF Head(trades).instrument = OwnInstrument
         THEN 1
         ELSE TradeCallbacksAnyLabel(Tail(trades))

\* _handle_trades_update: how often the loop calls on_trade_update.
RECURSIVE TradeCallbacks(_)
TradeCallbacks(trades) ==
    IF trades = <<>> THEN 0
    ELSE IF Head(trades).instrument = OwnInstrument /\ Head(trades).label = OwnLabel
         THEN 1
         ELSE TradeCallbacks(Tail(trades))

\* ------------------------------------------------------------------------
\* update_quotes tasks
\* ------------------------------------------------------------------------

NotRead == Order("-", Num(0))

\* One exchange call of a task: what was sent (an insert carries the order
\* label; amount is the size in exact arithmetic and amount_exact tells whether
\* the double that round_size returned is that number), how it came back ("pending"
\* while in flight), whether the side was cooling down when it was sent, and
\* the slot's cache entry once the outcome was handled.
Call(kind, slot, price, amount, cool) ==
    [kind |-> kind, client_order_id |-> slot,
     label |-> IF kind = "insert" THEN OwnLabel ELSE "",
     price |-> price, amount |-> amount,
     amount_exact |-> SizeProductIsTickMultiple(PyRound(RDiv(RAbs(amount), size_tick))),
     outcome |-> "pending", cool |-> cool, after |-> NotRead]

\* History: one finished call of adjust_order ("adjust") or of
\* cancel_order_if_exists ("cancel") for a slot: the cache entry it read first,
\* the desired price and size, its exchange calls, and the cache entry when it
\* returned.
NotDone ==
    [done |-> FALSE, path |-> "", entry |-> NotRead, price |-> Num(0),
     amount |-> Num(0), log |-> <<>>, ret |-> NotRead]

\* A task record: the arguments and locals of one update_quotes coroutine.
\* trig, path, entry, log and fin are history.
TaskRecord(pc, new_mid, best_bid, best_ask, trigger, trig) ==
    [pc |-> pc, trigger |-> trigger,
     new_mid |-> new_mid, best_bid |-> best_bid, best_ask |-> best_ask,
     bid_in_cooldown |-> FALSE, ask_in_cooldown |-> FALSE,
     price |-> [s \in Slots |-> Num(0)], amount |-> [s \in Slots |-> Num(0)],
     side |-> 0, confirmed |-> NoEntry,
     trig |-> trig, path |-> "", entry |-> NotRead, log |-> <<>>,
     fin |-> [s \in Slots |-> NotDone]]

\* asyncio.create_task(self.update_quotes(new_mid, best_bid, best_ask))
NewTask(new_mid, best_bid, best_ask, trigger) ==
    TaskRecord("spawned", new_mid, best_bid, best_ask, trigger, modSeq)

\* A task that has ended.
DoneTask == TaskRecord("done", None, None, None, "", 0)

\* Why update_quotes returned before it computed anything (lines 249-250 and
\* 270-272).
Skips == {"position unknown", "both sides cooling down"}

\* A task that has ended: of one that skipped, the reason is kept.
Ended(t) == IF t.path \in Skips THEN [DoneTask EXCEPT !.path = t.path] ELSE DoneTask

\* The side is cooling down now (as opposed to the flag a task computed).
CoolingDown(slot) ==
    IF slot = BidId
    THEN bid_cooldown_until # None /\ now < bid_cooldown_until[1]
    ELSE ask_cooldown_until # None /\ now < ask_cooldown_until[1]

\* The task sends a call for its current side and suspends on it.
Send(t, kind) ==
    [t EXCEPT !.pc = "call",
              !.log = Append(@, Call(kind, t.side, t.price[t.side], t.amount[t.side],
                                     CoolingDown(t.side)))]

\* adjust_order or cancel_order_if_exists returns.
Return(t, q) ==
    [t EXCEPT !.pc = "returned",
              !.fin[t.side] = [done |-> TRUE, path |-> t.path, entry |-> t.entry,
                               price |-> t.price[t.side], amount |-> t.amount[t.side],
                               log |-> t.log, ret |-> CacheGet(q, t.side)]]

\* A variant of the amend test that also amends at a distance of exactly
\* amend_threshold.
NeedsAmendAtThreshold(confirmed, price, amount) ==
    amount = Num(0) \/ RLe(Num(amend_threshold), RAbs(RSub(confirmed.price, price)))

\* adjust_order, line 378: whether the open order is amended
NeedsAmend(confirmed, price, amount) ==
    amount = Num(0) \/ RLt(Num(amend_threshold), RAbs(RSub(confirmed.price, price)))

\* A variant of adjust_order that inserts without looking at the size.
adjust_orderAnySize(t, q) ==
    LET confirmed == CacheGet(q, t.side)
        t1 == [t EXCEPT !.confirmed = confirmed, !.entry = confirmed,
                        !.path = "adjust", !.log = <<>>]
    IN  IF IsOpen(confirmed.status)
        THEN IF NeedsAmend(confirmed, t.price[t.side], t.amount[t.side])
             THEN Send(t1, "amend")
             ELSE Return(t1, q)
        ELSE Send(t1, "insert")

\* adjust_order up to its first await
adjust_order(t, q) ==
    LET confirmed == CacheGet(q, t.side)
        t1 == [t EXCEPT !.confirmed = confirmed, !.entry = confirmed,
                        !.path = "adjust", !.log = <<>>]
    IN  IF IsOpen(confirmed.status)
        THEN IF NeedsAmend(confirmed, t.price[t.side], t.amount[t.side])
             THEN Send(t1, "amend")
             ELSE Return(t1, q)
        ELSE IF RLt(Num(0), t.amount[t.side])
        THEN Send(t1, "insert")
        ELSE Return(t1, q)

\* A variant that sends the cancel whatever the status is.
CancelWhateverStatus(t, q) == Send(t, "cancel")

\* cancel_order_if_exists, lines 446-464, up to the cancel call
CancelIfOpen(t, q) ==
    IF IsOpen(t.confirmed.status) THEN Send(t, "cancel") ELSE Return(t, q)

\* cancel_order_if_exists up to its first await
cancel_order_if_exists(t, q) ==
    LET confirmed == CacheGet(q, t.side)
        t1 == [t EXCEPT !.confirmed = confirmed, !.entry = confirmed,
                        !.path = "cancel", !.log = <<>>]
    IN  IF confirmed.status \in {"filled", "cancelled"} THEN Return(t1, q)
        ELSE IF confirmed.status \in {"", "unknown"} THEN Send(t1, "order_status")
        ELSE CancelIfOpen(t1, q)

\* update_quotes, lines 349-362: one side, by the flag computed at the start
ReconcileSide(t, slot, q) ==
    LET t1 == [t EXCEPT !.side = slot]
    IN  IF (IF slot = BidId THEN t.bid_in_cooldown ELSE t.ask_in_cooldown)
        THEN cancel_order_if_exists(t1, q)
        ELSE adjust_order(t1, q)

\* The task runs on from a side that has returned: the ask side after the bid
\* side, the end of update_quotes after the ask side.
RunOn(t, q) ==
    IF t.pc # "returned" THEN t
    ELSE IF t.side = BidId
    THEN LET t1 == ReconcileSide(t, AskId, q)
         IN  IF t1.pc = "returned" THEN [t1 EXCEPT !.pc = "done"] ELSE t1
    ELSE [t EXCEPT !.pc = "done"]

\* The step of task i ends with the task as t: what it finished goes to the
\* history, and an ended task leaves nothing behind.
Commit(i, t) ==
    /\ uq' = [uq EXCEPT ![i] = IF t.pc = "done" THEN Ended(t)
                               ELSE [t EXCEPT !.fin = [s \in Slots |-> NotDone]]]
    /\ last' = [s \in Slots |-> IF t.fin[s].done THEN t.fin[s] ELSE last[s]]

\* A variant of the bid flag that never reports a cooldown.
BidInCooldownNever == FALSE

\* A variant of the bid recovery flag that does not look at the cooldown.
BidInRecoveryLoose == bid_recovery_until # None /\ now < bid_recovery_until[1]

\* The flags update_quotes computes at its start (lines 252-258).
BidInCooldown == bid_cooldown_until # None /\ now < bid_cooldown_until[1]

AskInCooldown == ask_cooldown_until # None /\ now < ask_cooldown_until[1]

BidInRecovery == bid_recovery_until # None /\ now < bid_recovery_until[1] /\ ~BidInCooldown

AskInRecovery == ask_recovery_until # None /\ now < ask_recovery_until[1] /\ ~AskInCooldown

\* update_quotes from its first line to its first suspension
UpdateQuotesStart(i) ==
    /\ i \in DOMAIN uq
    /\ uq[i].pc = "spawned"
    /\ LET t == uq[i]
       IN  IF position = None \/ (BidInCooldown /\ AskInCooldown)
           THEN /\ Commit(i, [t EXCEPT !.pc = "done",
                                       !.path = IF position = None
                                                THEN "position unknown"
                                                ELSE "both sides cooling down"])
                /\ UNCHANGED <<mid, last_bid_spread, last_ask_spread>>
           ELSE LET bid_spread == BidSpread(current_volatility, position, BidInRecovery)
                    ask_spread == AskSpread(current_volatility, position, AskInRecovery)
                    t1 == [t EXCEPT
                             !.bid_in_cooldown = BidInCooldown,
                             !.ask_in_cooldown = AskInCooldown,
                             !.price = [s \in Slots |->
                                 IF s = BidId
                                 THEN BidPrice(t.new_mid, t.best_bid, bid_spread)
                                 ELSE AskPrice(t.new_mid, t.best_ask, ask_spread)],
                             !.amount = [s \in Slots |->
                                 IF s = BidId
                                 THEN BidSize(current_volatility, position)
                                 ELSE AskSize(current_volatility, position)]]
                IN  /\ last_bid_spread' = bid_spread
                    /\ last_ask_spread' = ask_spread
                    /\ mid' = t.new_mid
                    /\ Commit(i, RunOn(ReconcileSide(t1, BidId, quotes), quotes))
    /\ UNCHANGED <<sessVars, quotes, position, current_volatility, coolVars, recovering_from_desync,
                   pipeVars, rec, now, received, dispLog, modSeq>>

\* How the exchange client can answer a call: it returns, it raises an error
\* whose text contains "order not found", or it raises another error.
Outcomes(kind) ==
    IF kind \in {"amend", "cancel"} THEN {"ok", "order not found", "error"}
    ELSE {"ok", "error"}

\* The cache after the code that follows the call: the assignment after an
\* accepted insert (line 422) or cancel (line 454) and the except branches.
CacheAfter(q, t, kind, outcome) ==
    IF kind = "insert" /\ outcome = "ok"
    THEN CachePut(q, t.side, Order("open", t.price[t.side]))
    ELSE IF kind = "amend" /\ outcome = "order not found"
    THEN CachePut(q, t.side, Order("unknown", t.price[t.side]))
    ELSE IF kind = "cancel" /\ outcome = "ok"
    THEN CachePut(q, t.side, Order("cancelled", t.confirmed.price))
    ELSE IF kind = "cancel" /\ outcome = "order not found"
    THEN CachePut(q, t.side, Order("unknown", t.confirmed.price))
    ELSE q

\* A variant of adjust_order's except branch without the fallback insert.
AfterCallNoFallback(t, q, kind, outcome) ==
    IF kind = "order_status" THEN [t EXCEPT !.pc = "sleep"] ELSE Return(t, q)

\* A variant that also sends the fallback insert after a cancel that found no
\* order.
AfterCallInsertAfterCancel(t, q, kind, outcome) ==
    IF kind \in {"amend", "cancel"} /\ outcome = "order not found"
       /\ RLt(Num(0), t.amount[t.side])
    THEN Send(t, "insert")
    ELSE IF kind = "order_status"
    THEN [t EXCEPT !.pc = "sleep"]
    ELSE Return(t, q)

\* The task after the call came back: the fallback insert of adjust_order
\* (line 399), the sleep after the status refresh (line 441), or the return.
AfterCall(t, q, kind, outcome) ==
    IF kind = "amend" /\ outcome = "order not found" /\ RLt(Num(0), t.amount[t.side])
    THEN Send(t, "insert")
    ELSE IF kind = "order_status"
    THEN [t EXCEPT !.pc = "sleep"]
    ELSE Return(t, q)

\* An exchange call of a task comes back and the task runs to its next
\* suspension.
CallReturn(i, outcome) ==
    /\ i \in DOMAIN uq
    /\ uq[i].pc = "call"
    /\ LET t == uq[i]
           n == Len(t.log)
           kind == t.log[n].kind
           q == CacheAfter(quotes, t, kind, outcome)
           t1 == [t EXCEPT !.log[n].outcome = outcome,
                           !.log[n].after = CacheGet(q, t.side)]
       IN  /\ outcome \in Outcomes(kind)
           /\ quotes' = q
           /\ Commit(i, RunOn(AfterCall(t1, q, kind, outcome), q))
    /\ UNCHANGED <<sessVars, position, mid, last_bid_spread, last_ask_spread, current_volatility,
                   coolVars, recovering_from_desync, pipeVars, rec, now, received,
                   dispLog, modSeq>>

\* cancel_order_if_exists after asyncio.sleep(0.1): the status is read again.
SleepReturn(i) ==
    /\ i \in DOMAIN uq
    /\ uq[i].pc = "sleep"
    /\ LET t == [uq[i] EXCEPT !.confirmed = CacheGet(quotes, uq[i].side)]
       IN  Commit(i, RunOn(CancelIfOpen(t, quotes), quotes))
    /\ UNCHANGED <<sessVars, quoterVars, coolVars, recovering_from_desync, pipeVars, rec, now,
                   received, dispLog, modSeq>>

\* ------------------------------------------------------------------------
\* The frames the exchange delivers in this model
\* ------------------------------------------------------------------------

OrderUpdate(cid, status, price) == [client_order_id |-> cid, status |-> status, price |-> price]

OrderNotification(cid, status, price) == <<OrderUpdate(cid, status, price)>>

PortfolioNotification(instrument, pos) ==
    <<[instrument_name |-> instrument, position |-> pos]>>

Trade(instrument, label) == [instrument |-> instrument, label |-> label]

\* Spec: the frames of a quoting session.  Ticker 29999/30001 gives quotes
\* 29998/30002 and ticker 30009/30011 gives 30008/30012, so a resting bid at
\* 29993 is exactly amend_threshold away from the first and further from the
\* second.  One orders notification reports the fill of the bid and the
\* order that took its client_order_id.
QuoteFrames ==
    { PortfolioFrame(PortfolioNotification(OwnInstrument, Num(0))),
      PortfolioFrame(PortfolioNotification(OwnInstrument, max_position)),
      OrdersFrame(OrderNotification(BidId, "open", Num(29993))),
      OrdersFrame(<<OrderUpdate(BidId, "filled", Num(29998)),
                    OrderUpdate(BidId, "open", Num(29993))>>),
      OrdersFrame(OrderNotification(AskId, "filled", Num(30002))),
      TickerFrame(Num(29999), Num(30001)),
      TickerFrame(Num(30009), Num(30011)),
      TradesFrame(<<Trade(OwnInstrument, OwnLabel)>>) }

\* SpecPipeline: every kind of frame process_message tells apart, and no fill.
PipelineFrames ==
    { PortfolioFrame(PortfolioNotification(OwnInstrument, Num(0))),
      PortfolioFrame(PortfolioNotification("ETH-PERPETUAL", Num(1))),
      OrdersFrame(OrderNotification(BidId, "open", Num(29998))),
      OrdersFrame(OrderNotification(AskId, "cancelled", Num(30002))),
      TickerFrame(Num(29999), Num(30001)),
      TradesFrame(<<Trade(OwnInstrument, OwnLabel)>>),
      TradesFrame(<<Trade(OwnInstrument, "manual"), Trade(OwnInstrument, OwnLabel),
                    Trade(OwnInstrument, OwnLabel)>>),
      TradesFrame(<<Trade(OwnInstrument, "manual"), Trade("ETH-PERPETUAL", OwnLabel)>>),
      TradesFrame(<<>>),
      ErrorFrame("order not found"),
      ErrorFrame("rate limit exceeded"),
      AccountSummaryFrame,
      Msg({"id"}, "", <<>>, NoResult, ""),
      Unparsable }

\* ------------------------------------------------------------------------
\* WebSocketHandler: connection, receiver, dispatcher
\* ------------------------------------------------------------------------

\* The two request loops quote() starts (lines 489-490).
Loops == {"ticker_loop", "account_summary_loop"}

\* A loop task that has not run yet.
NotStarted == [pc |-> "none", request |-> 0]

\* connect_and_authenticate before its first call.
NotConnecting ==
    [pc |-> "idle", attempt |-> 0, retry_delay |-> 0, connected |-> FALSE,
     was_connected |-> FALSE, calls |-> <<>>, delays |-> <<>>, result |-> "",
     invocations |-> 0]

\* asyncio.Event.set(): every task blocked in wait() is made runnable; it
\* resumes later, when the event loop gets to it.
Woken(signal, l) ==
    IF signal THEN l
    ELSE [x \in DOMAIN l |-> IF l[x].pc = "waiting" THEN [l[x] EXCEPT !.pc = "woken"] ELSE l[x]]

\* connect_and_authenticate returning True to quote() (line 58)
ConnectAndAuthenticate ==
    /\ dispatcher = "idle"
    /\ ~authenticated
    /\ authenticated' = TRUE
    /\ loops' = Woken(authenticated, loops)
    /\ UNCHANGED <<conn, requests, calc, retry_count, main_pc, periodic, cleanup_log, quoterVars, coolVars, recovering_from_desync, message_queue,
                   is_running, consecutive_errors, receiver, dispatcher, uq, rec, now, histVars>>

\* The background tasks of quote(), in the order of the list at line 498.
PeriodicTasks ==
    <<"update_volatility_loop", "log_loop", "ticker_loop", "account_summary_loop">>

\* No background task has been created.
NoPeriodic ==
    [alive |-> [n \in 1..Len(PeriodicTasks) |-> 0], cancelled |-> 0]

\* quote(), lines 487-494, and start_message_processing, lines 204-205: the
\* four background tasks are created and, with no suspension between,
\* start_message_processing is entered; the receiver task it creates starts
\* with its own failure count (websocket_receiver, line 116)
StartMessageProcessing ==
    /\ dispatcher = "idle"
    /\ authenticated
    /\ periodic' = [alive |-> [n \in 1..Len(PeriodicTasks) |-> periodic.alive[n] + 1],
                    cancelled |-> 0]
    /\ is_running' = TRUE
    /\ receiver' = "running"
    /\ consecutive_errors' = 0
    /\ dispatcher' = "running"
    /\ UNCHANGED <<conn, loops, requests, calc, retry_count, main_pc, cleanup_log,
                   quoterVars, coolVars, recovering_from_desync, message_queue,
                   authenticated, uq, rec, now, histVars>>

\* message_queue.put(msg)
QueuePut(queue, item) == Append(queue, item)

\* A variant of get() that returns the newest item (a LifoQueue).
QueueGetNewest(queue) == queue[Len(queue)]

\* message_queue.get(): the item it returns
QueueGet(queue) == Head(queue)

\* what message_queue.get() leaves in the queue
QueueRest(queue) == Tail(queue)

\* websocket_receiver, lines 123-130: one frame received and queued
Receive(m) ==
    /\ receiver = "running"
    /\ is_running
    /\ authenticated
    /\ message_queue' = QueuePut(message_queue, Queued(received + 1, m))
    /\ received' = received + 1
    /\ consecutive_errors' = 0
    /\ UNCHANGED <<sessVars, quoterVars, coolVars, recovering_from_desync, is_running,
                   authenticated, receiver, dispatcher, uq, rec, now, dispLog, modSeq, last>>

max_consecutive_errors == 3

\* websocket_receiver, lines 132-142: the connection is unhealthy, the signal
\* is clear, or receive() raised a websocket error
ReceiverConnectionError ==
    /\ receiver \in {"running", "retrying"}
    /\ is_running
    /\ authenticated' = FALSE
    /\ consecutive_errors' = consecutive_errors + 1
    /\ IF consecutive_errors + 1 >= max_consecutive_errors
       THEN /\ message_queue' = QueuePut(message_queue, Sentinel)
            /\ receiver' = "stopped"
       ELSE /\ message_queue' = message_queue
            /\ receiver' = "reconnecting"
    /\ UNCHANGED <<sessVars, quoterVars, coolVars, recovering_from_desync, is_running,
                   dispatcher, uq, rec, now, histVars>>

\* A variant whose successful reconnect leaves the failure count as it is.
ReconnectedKeepsCount(ok) ==
    /\ receiver = "reconnecting"
    /\ receiver' = IF ok THEN "running" ELSE "retrying"
    /\ authenticated' = ok
    /\ loops' = IF ok THEN Woken(authenticated, loops) ELSE loops
    /\ UNCHANGED <<conn, requests, calc, retry_count, main_pc, periodic, cleanup_log, quoterVars, coolVars, recovering_from_desync,
                   message_queue, is_running, consecutive_errors, dispatcher, uq, rec, now,
                   histVars>>

\* websocket_receiver, lines 143-154: connect_and_authenticate came back
Reconnected(ok) ==
    /\ receiver = "reconnecting"
    /\ receiver' = IF ok THEN "running" ELSE "retrying"
    /\ authenticated' = ok
    /\ loops' = IF ok THEN Woken(authenticated, loops) ELSE loops
    /\ consecutive_errors' = IF ok THEN 0 ELSE consecutive_errors
    /\ UNCHANGED <<conn, requests, calc, retry_count, main_pc, periodic, cleanup_log, quoterVars, coolVars, recovering_from_desync, message_queue,
                   is_running, dispatcher, uq, rec, now, histVars>>

\* websocket_receiver, lines 156-165: receive() raised another error
ReceiverError ==
    /\ receiver = "running"
    /\ is_running
    /\ authenticated
    /\ consecutive_errors' = consecutive_errors + 1
    /\ IF consecutive_errors + 1 >= max_consecutive_errors
       THEN /\ message_queue' = QueuePut(message_queue, Sentinel)
            /\ receiver' = "stopped"
       ELSE /\ message_queue' = message_queue
            /\ receiver' = "running"
    /\ UNCHANGED <<sessVars, quoterVars, coolVars, recovering_from_desync, is_running,
                   authenticated, dispatcher, uq, rec, now, histVars>>

\* start_message_processing has an item to take from the queue.
CanDispatch == dispatcher = "running" /\ is_running /\ message_queue # <<>>

\* The dispatcher takes a frame with this channel and hands it to
\* process_message.
Taken(channels) ==
    /\ CanDispatch
    /\ ~QueueGet(message_queue).sentinel
    /\ Channel(QueueGet(message_queue).msg) \in channels
    /\ message_queue' = QueueRest(message_queue)
    /\ dispLog' = Append(dispLog, QueueGet(message_queue).id)
    /\ UNCHANGED <<sessVars, is_running, authenticated, consecutive_errors, receiver, dispatcher,
                   received, last>>

\* start_message_processing, lines 212-214
DispatchSentinel ==
    /\ CanDispatch
    /\ QueueGet(message_queue).sentinel
    /\ message_queue' = QueueRest(message_queue)
    /\ dispatcher' = "ended"
    /\ UNCHANGED <<sessVars, quoterVars, coolVars, recovering_from_desync, is_running,
                   authenticated, consecutive_errors, receiver, uq, rec, now, histVars>>

\* session.orders -> _handle_orders_update -> _on_order_update
DispatchOrders ==
    /\ Taken({"session.orders"})
    /\ LET s == HandleOrdersUpdate(OrderState, QueueGet(message_queue).msg.notification, now)
       IN  /\ quotes' = s.quotes
           /\ last_bid_fill_time' = s.last_bid_fill_time
           /\ last_ask_fill_time' = s.last_ask_fill_time
           /\ bid_cooldown_until' = s.bid_cooldown_until
           /\ ask_cooldown_until' = s.ask_cooldown_until
           /\ bid_recovery_until' = s.bid_recovery_until
           /\ ask_recovery_until' = s.ask_recovery_until
           /\ modSeq' = IF s # OrderState THEN modSeq + 1 ELSE modSeq
    /\ UNCHANGED <<position, mid, last_bid_spread, last_ask_spread, current_volatility,
                   recovering_from_desync, uq, rec, now>>

\* account.portfolio -> _handle_portfolio_update -> _on_position_update
DispatchPortfolio ==
    /\ Taken({"account.portfolio"})
    /\ position' = HandlePortfolioUpdate(position, QueueGet(message_queue).msg.notification)
    /\ modSeq' = IF position' # position THEN modSeq + 1 ELSE modSeq
    /\ UNCHANGED <<quotes, mid, last_bid_spread, last_ask_spread, current_volatility,
                   coolVars, recovering_from_desync, uq, rec, now>>

\* _on_trade_update, called n times
RECURSIVE OnTradeUpdate(_, _)
OnTradeUpdate(tasks, n) ==
    IF n = 0 THEN tasks
    ELSE OnTradeUpdate(IF mid # None
                       THEN Append(tasks, NewTask(mid, None, None, "trades"))
                       ELSE tasks,
                       n - 1)

\* trades -> _handle_trades_update -> _on_trade_update
DispatchTrades ==
    /\ Taken({"trades"})
    /\ uq' = OnTradeUpdate(uq, TradeCallbacks(QueueGet(message_queue).msg.notification))
    /\ Len(uq') <= MaxTasks
    /\ UNCHANGED <<quoterVars, coolVars, recovering_from_desync, rec, now, modSeq>>

\* Handling the frame raises an error that is no connection-closed error: a
\* ticker result whose best prices are null (an empty book) makes
\* _handle_ticker_update add None to None (line 130, TypeError).
HandlingRaises(msg) ==
    /\ Channel(msg) = "ticker"
    /\ msg.result.best_bid_price = None \/ msg.result.best_ask_price = None

\* A variant in which the dispatcher leaves its loop when handling raises.
DispatchRaisingBreaks ==
    /\ CanDispatch
    /\ ~QueueGet(message_queue).sentinel
    /\ HandlingRaises(QueueGet(message_queue).msg)
    /\ message_queue' = QueueRest(message_queue)
    /\ dispLog' = Append(dispLog, QueueGet(message_queue).id)
    /\ dispatcher' = "ended"
    /\ UNCHANGED <<sessVars, quoterVars, coolVars, recovering_from_desync, is_running,
                   authenticated, consecutive_errors, receiver, uq, rec, now, received, last,
                   modSeq>>

\* start_message_processing, lines 223-225: process_message raised while
\* handling the frame, before the handler changed anything; the error is
\* logged and the loop continues.
DispatchRaising ==
    /\ Taken({"ticker"})
    /\ HandlingRaises(QueueGet(message_queue).msg)
    /\ UNCHANGED <<quoterVars, coolVars, recovering_from_desync, uq, rec, now, modSeq>>

\* ticker -> _handle_ticker_update -> _on_ticker_update
DispatchTicker ==
    /\ Taken({"ticker"})
    /\ ~HandlingRaises(QueueGet(message_queue).msg)
    /\ Len(uq) < MaxTasks
    /\ LET result == QueueGet(message_queue).msg.result
           mid_price == RDiv(RAdd(result.best_bid_price, result.best_ask_price), Num(2))
       IN  uq' = Append(uq, NewTask(mid_price, result.best_bid_price,
                                    result.best_ask_price, "ticker"))
    /\ UNCHANGED <<quoterVars, coolVars, recovering_from_desync, rec, now, modSeq>>

\* Frames that change no state of this model: an account summary (it sets the
\* PnL fields only), an error frame (handle_notification has no branch for the
\* channel "error"), a frame with none of the three keys, a result that is
\* neither, and a frame json.loads rejects.
DispatchOther ==
    /\ Taken({"account.summary", "error", ""})
    /\ UNCHANGED <<quoterVars, coolVars, recovering_from_desync, uq, rec, now, modSeq>>

\* ------------------------------------------------------------------------
\* Desync recovery
\* ------------------------------------------------------------------------

\* _on_exchange_error(error_data): the error callback the Quoter registers.
\* notfound says whether the message contains "order not found".
OnExchangeError(notfound) ==
    IF notfound /\ ~recovering_from_desync THEN Append(rec, "spawned") ELSE rec

\* The error callback is awaited with an error payload.
ExchangeError(notfound) ==
    /\ is_running
    /\ rec' = OnExchangeError(notfound)
    /\ Len(rec') <= MaxRecoveries
    /\ UNCHANGED <<sessVars, quoterVars, coolVars, recovering_from_desync, pipeVars, uq, now, histVars>>

\* recover_from_state_desync, lines 100-105: the task starts running
RecoveryStart(j) ==
    /\ j \in DOMAIN rec
    /\ rec[j] = "spawned"
    /\ recovering_from_desync' = TRUE
    /\ rec' = [rec EXCEPT ![j] = "cancel_all"]
    /\ UNCHANGED <<sessVars, quoterVars, coolVars, pipeVars, uq, now, histVars>>

\* A variant without the finally clause: a run whose cancel_all raised ends
\* with the flag as it was.
CancelAllReturnNoFinally(j, ok) ==
    /\ j \in DOMAIN rec
    /\ rec[j] = "cancel_all"
    /\ IF ok
       THEN /\ quotes' = <<>>
            /\ rec' = [rec EXCEPT ![j] = "sleep"]
       ELSE /\ rec' = [rec EXCEPT ![j] = "done"]
            /\ UNCHANGED quotes
    /\ UNCHANGED <<sessVars, position, mid, last_bid_spread, last_ask_spread, current_volatility,
                   coolVars, recovering_from_desync, pipeVars, uq, now, histVars>>

\* recover_from_state_desync, lines 106-119: cancel_all came back
CancelAllReturn(j, ok) ==
    /\ j \in DOMAIN rec
    /\ rec[j] = "cancel_all"
    /\ IF ok
       THEN /\ quotes' = <<>>
            /\ rec' = [rec EXCEPT ![j] = "sleep"]
            /\ UNCHANGED recovering_from_desync
       ELSE /\ recovering_from_desync' = FALSE
            /\ rec' = [rec EXCEPT ![j] = "done"]
            /\ UNCHANGED quotes
    /\ UNCHANGED <<sessVars, position, mid, last_bid_spread, last_ask_spread, current_volatility,
                   coolVars, pipeVars, uq, now, histVars>>

\* recover_from_state_desync, lines 113-119: asyncio.sleep(2) is over
RecoverySettled(j) ==
    /\ j \in DOMAIN rec
    /\ rec[j] = "sleep"
    /\ recovering_from_desync' = FALSE
    /\ rec' = [rec EXCEPT ![j] = "done"]
    /\ UNCHANGED <<sessVars, quoterVars, coolVars, pipeVars, uq, now, histVars>>

\* ------------------------------------------------------------------------
\* Specification
\* ------------------------------------------------------------------------

\* The state Quoter.__init__ and WebSocketHandler.__init__ leave; main passes
\* volatility 0.0.
\* ------------------------------------------------------------------------
\* connect_and_authenticate, step by step
\* ------------------------------------------------------------------------

max_retries == 3

initial_retry_delay == 2

\* retry_delay *= 2, unchanged by this variant
NextDelaySame(d) == d

\* retry_delay *= 2
NextDelay(d) == d * 2

\* The exchange-client calls of one attempt, in the order of lines 38-55.
Steps == <<"connect", "login", "set_cancel_on_disconnect", "private_subscribe">>

StepCall(step) == [step |-> step, outcome |-> "pending"]

\* The top of the for loop, lines 32-41: tlx.connect() is awaited only when
\* tlx.connected() is false; otherwise the attempt goes on to tlx.login().
BeginAttempt(c) ==
    [c EXCEPT !.was_connected = c.connected,
              !.pc = IF c.connected THEN "login" ELSE "connect",
              !.calls = <<StepCall(IF c.connected THEN "login" ELSE "connect")>>]

\* The step awaited after this one.
Following(step) ==
    CASE step = "connect" -> "login"
      [] step = "login" -> "set_cancel_on_disconnect"
      [] step = "set_cancel_on_disconnect" -> "private_subscribe"

Settled(c, outcome) == [c.calls EXCEPT ![Len(c.calls)].outcome = outcome]

\* quote() calls connect_and_authenticate, and calls it again in the next
\* iteration of its retry loop: after it returned False, or after it returned
\* True and test_connection failed (lines 471-482).
ConnectInvoke ==
    /\ dispatcher = "idle"
    /\ conn.pc \in {"idle", "returned"}
    /\ conn.invocations < MaxConnects
    /\ conn' = BeginAttempt([conn EXCEPT !.attempt = 1,
                                         !.retry_delay = initial_retry_delay,
                                         !.delays = <<>>,
                                         !.result = "",
                                         !.invocations = @ + 1])
    /\ UNCHANGED <<quoterVars, coolVars, recovering_from_desync, pipeVars, uq, rec, now,
                   histVars, loops, requests, calc, retry_count, main_pc, periodic, cleanup_log>>

\* A variant whose except branches leave the signal as it is.
ConnectCallReturnKeepsSignal(outcome, still) ==
    /\ conn.pc \in {Steps[k] : k \in DOMAIN Steps}
    /\ IF outcome = "ok"
       THEN IF conn.pc = "private_subscribe"
            THEN /\ authenticated' = TRUE
                 /\ loops' = Woken(authenticated, loops)
                 /\ conn' = [conn EXCEPT !.pc = "returned", !.result = "True",
                                         !.calls = Settled(conn, outcome)]
            ELSE /\ conn' = [conn EXCEPT !.pc = Following(conn.pc),
                                         !.connected = TRUE,
                                         !.calls = Append(Settled(conn, outcome),
                                                          StepCall(Following(conn.pc)))]
                 /\ UNCHANGED <<authenticated, loops>>
       ELSE /\ UNCHANGED <<authenticated, loops>>
            /\ IF conn.attempt < max_retries
               THEN conn' = [conn EXCEPT !.pc = "backoff",
                                         !.connected = (conn.pc # "connect") /\ still,
                                         !.calls = Settled(conn, outcome),
                                         !.delays = Append(@, conn.retry_delay),
                                         !.retry_delay = NextDelay(@)]
               ELSE conn' = [conn EXCEPT !.pc = "returned", !.result = "False",
                                         !.connected = (conn.pc # "connect") /\ still,
                                         !.calls = Settled(conn, outcome)]
    /\ UNCHANGED <<quoterVars, coolVars, recovering_from_desync, message_queue, is_running,
                   consecutive_errors, receiver, dispatcher, uq, rec, now, histVars, requests, calc, retry_count, main_pc, periodic, cleanup_log>>

\* The awaited call of the attempt comes back.  outcome is "ok", a
\* websockets exception (lines 61-69) or any other Exception (lines 71-79);
\* still tells whether the socket is still connected after a failure.
ConnectCallReturn(outcome, still) ==
    /\ conn.pc \in {Steps[k] : k \in DOMAIN Steps}
    /\ IF outcome = "ok"
       THEN IF conn.pc = "private_subscribe"
            THEN /\ authenticated' = TRUE
                 /\ loops' = Woken(authenticated, loops)
                 /\ conn' = [conn EXCEPT !.pc = "returned", !.result = "True",
                                         !.calls = Settled(conn, outcome)]
            ELSE /\ conn' = [conn EXCEPT !.pc = Following(conn.pc),
                                         !.connected = TRUE,
                                         !.calls = Append(Settled(conn, outcome),
                                                          StepCall(Following(conn.pc)))]
                 /\ UNCHANGED <<authenticated, loops>>
       ELSE /\ authenticated' = FALSE
            /\ UNCHANGED loops
            /\ IF conn.attempt < max_retries
               THEN conn' = [conn EXCEPT !.pc = "backoff",
                                         !.connected = (conn.pc # "connect") /\ still,
                                         !.calls = Settled(conn, outcome),
                                         !.delays = Append(@, conn.retry_delay),
                                         !.retry_delay = NextDelay(@)]
               ELSE conn' = [conn EXCEPT !.pc = "returned", !.result = "False",
                                         !.connected = (conn.pc # "connect") /\ still,
                                         !.calls = Settled(conn, outcome)]
    /\ UNCHANGED <<quoterVars, coolVars, recovering_from_desync, message_queue, is_running,
                   consecutive_errors, receiver, dispatcher, uq, rec, now, histVars, requests, calc, retry_count, main_pc, periodic, cleanup_log>>

\* asyncio.sleep(retry_delay) is over: continue with the next attempt.
ConnectBackoffDone ==
    /\ conn.pc = "backoff"
    /\ conn' = BeginAttempt([conn EXCEPT !.attempt = @ + 1])
    /\ UNCHANGED <<quoterVars, coolVars, recovering_from_desync, pipeVars, uq, rec, now,
                   histVars, loops, requests, calc, retry_count, main_pc, periodic, cleanup_log>>

\* ------------------------------------------------------------------------
\* ticker_loop and account_summary_loop
\* ------------------------------------------------------------------------

\* tlx.ticker(...) or tlx.account_summary() is called: the request is
\* recorded with the value the signal has at this moment.
Requested(l) ==
    Append(requests, [loop |-> l, authenticated |-> authenticated,
                      outcome |-> "pending", cleared |-> FALSE])

\* The loop task runs for the first time or its asyncio.sleep is over: it
\* tests is_running, then awaits authenticated.wait(), which returns at once
\* when the signal is set and blocks otherwise.
LoopRun(l) ==
    /\ dispatcher = "running"
    /\ is_running
    /\ loops[l].pc \in {"none", "sleep"}
    /\ Len(requests) < MaxRequests
    /\ IF authenticated
       THEN /\ requests' = Requested(l)
            /\ loops' = [loops EXCEPT ![l] = [pc |-> "request", request |-> Len(requests) + 1]]
       ELSE /\ loops' = [loops EXCEPT ![l].pc = "waiting"]
            /\ UNCHANGED requests
    /\ UNCHANGED <<quoterVars, coolVars, recovering_from_desync, pipeVars, uq, rec, now,
                   histVars, conn, calc, retry_count, main_pc, periodic, cleanup_log>>

\* A loop that set() woke gets to run again: wait() returns and the request
\* on the next line is sent.
LoopResume(l) ==
    /\ dispatcher = "running"
    /\ loops[l].pc = "woken"
    /\ Len(requests) < MaxRequests
    /\ requests' = Requested(l)
    /\ loops' = [loops EXCEPT ![l] = [pc |-> "request", request |-> Len(requests) + 1]]
    /\ UNCHANGED <<quoterVars, coolVars, recovering_from_desync, pipeVars, uq, rec, now,
                   histVars, conn, calc, retry_count, main_pc, periodic, cleanup_log>>

\* The request returns or raises; a raise clears the signal (lines 277-282,
\* 298-303).  Then the loop sleeps.
LoopRequestReturn(l, ok) ==
    /\ loops[l].pc = "request"
    /\ authenticated' = (ok /\ authenticated)
    /\ requests' = [requests EXCEPT ![loops[l].request].outcome = IF ok THEN "ok" ELSE "fault",
                                    ![loops[l].request].cleared = ~authenticated']
    /\ loops' = [loops EXCEPT ![l].pc = "sleep"]
    /\ UNCHANGED <<quoterVars, coolVars, recovering_from_desync, message_queue, is_running,
                   consecutive_errors, receiver, dispatcher, uq, rec, now, histVars, conn, calc, retry_count, main_pc, periodic, cleanup_log>>

\* Quoter.__init__ and WebSocketHandler.__init__, given the constructor's
\* volatility argument
Constructed(volatility) ==
    /\ quotes = <<>>
    /\ position = None
    /\ mid = None
    /\ last_bid_spread = None
    /\ last_ask_spread = None
    /\ current_volatility = volatility
    /\ last_bid_fill_time = None
    /\ last_ask_fill_time = None
    /\ bid_cooldown_until = None
    /\ ask_cooldown_until = None
    /\ bid_recovery_until = None
    /\ ask_recovery_until = None
    /\ recovering_from_desync = FALSE
    /\ message_queue = <<>>
    /\ is_running = FALSE
    /\ authenticated = FALSE
    /\ consecutive_errors = 0
    /\ receiver = "none"
    /\ dispatcher = "idle"
    /\ uq = <<>>
    /\ rec = <<>>
    /\ now = 0
    /\ received = 0
    /\ dispLog = <<>>
    /\ modSeq = 0
    /\ last = [s \in Slots |-> NotDone]
    /\ conn = NotConnecting
    /\ loops = [l \in Loops |-> NotStarted]
    /\ requests = <<>>
    /\ calc = <<>>
    /\ retry_count = 0
    /\ main_pc = "quote"
    /\ periodic = NoPeriodic
    /\ cleanup_log = <<>>

\* main() constructs the quoter with volatility 0.0.
Init == Constructed(Num(0))

\* A quoting session on a healthy connection.
Next ==
    \/ ConnectAndAuthenticate
    \/ StartMessageProcessing
    \/ \E m \in QuoteFrames : received < MaxFrames /\ Receive(m)
    \/ DispatchOrders
    \/ DispatchPortfolio
    \/ DispatchTrades
    \/ DispatchTicker
    \/ \E i \in 1..MaxTasks : UpdateQuotesStart(i)
    \/ \E i \in 1..MaxTasks : \E o \in {"ok", "order not found", "error"} : CallReturn(i, o)
    \/ \E i \in 1..MaxTasks : SleepReturn(i)

Spec == Init /\ [][Next]_vars

\* The message pipeline with every kind of frame and with receiver faults.  No
\* frame reports a fill, so no side ever cools down and no task reaches
\* cancel_order_if_exists.
NextPipeline ==
    \/ ConnectAndAuthenticate
    \/ StartMessageProcessing
    \/ \E m \in PipelineFrames : received < MaxPipelineFrames /\ Receive(m)
    \/ ReceiverConnectionError
    \/ \E ok \in BOOLEAN : Reconnected(ok)
    \/ ReceiverError
    \/ DispatchSentinel
    \/ DispatchOrders
    \/ DispatchPortfolio
    \/ DispatchTrades
    \/ DispatchTicker
    \/ DispatchOther
    \/ \E i \in 1..MaxTasks : UpdateQuotesStart(i)
    \/ \E i \in 1..MaxTasks : \E o \in {"ok", "order not found", "error"} : CallReturn(i, o)

SpecPipeline == Init /\ [][NextPipeline]_vars

\* The error callback and the recovery tasks it spawns, next to a quoting
\* session.  The callback is invoked directly: see DispatchOther for what the
\* dispatcher does with an error frame.
RecoveryFrames ==
    { PortfolioFrame(PortfolioNotification(OwnInstrument, Num(0))),
      OrdersFrame(OrderNotification(BidId, "open", Num(29993))),
      TickerFrame(Num(29999), Num(30001)) }

NextRecovery ==
    \/ ConnectAndAuthenticate
    \/ StartMessageProcessing
    \/ \E m \in RecoveryFrames : received < MaxRecoveryFrames /\ Receive(m)
    \/ DispatchOrders
    \/ DispatchPortfolio
    \/ DispatchTicker
    \/ \E i \in 1..MaxTasks : UpdateQuotesStart(i)
    \/ \E i \in 1..MaxTasks : \E o \in {"ok", "order not found", "error"} : CallReturn(i, o)
    \/ \E notfound \in BOOLEAN : ExchangeError(notfound)
    \/ \E j \in 1..MaxRecoveries : RecoveryStart(j)
    \/ \E j \in 1..MaxRecoveries : \E ok \in BOOLEAN : CancelAllReturn(j, ok)
    \/ \E j \in 1..MaxRecoveries : RecoverySettled(j)

SpecRecovery == Init /\ [][NextRecovery]_vars

\* adjust_order on its own: a session whose frames report no fill, so that
\* every reconciliation goes through adjust_order.
AdjustFrames ==
    { PortfolioFrame(PortfolioNotification(OwnInstrument, Num(0))),
      PortfolioFrame(PortfolioNotification(OwnInstrument, max_position)),
      OrdersFrame(OrderNotification(BidId, "open", Num(29993))),
      OrdersFrame(OrderNotification(AskId, "cancelled", Num(30002))),
      TickerFrame(Num(29999), Num(30001)),
      TickerFrame(Num(30009), Num(30011)) }

NextAdjust ==
    \/ ConnectAndAuthenticate
    \/ StartMessageProcessing
    \/ \E m \in AdjustFrames : received < MaxAdjustFrames /\ Receive(m)
    \/ DispatchOrders
    \/ DispatchPortfolio
    \/ DispatchTicker
    \/ \E i \in 1..MaxTasks : UpdateQuotesStart(i)
    \/ \E i \in 1..MaxTasks : \E o \in {"ok", "order not found", "error"} : CallReturn(i, o)

SpecAdjust == Init /\ [][NextAdjust]_vars

\* The cooldown and recovery windows: a session in which both sides get
\* filled and time.time() moves on between the steps.  The readings are the
\* start, a later fill time t = 100, and t + 4, t + 5, t + 20, t + 35, t + 40.
ClockReadings == {0, 100, 104, 105, 120, 135, 140}

\* time.time() reads a later value than before.
Tick(t) ==
    /\ t > now
    /\ now' = t
    /\ UNCHANGED <<sessVars, quoterVars, coolVars, recovering_from_desync, pipeVars, uq, rec, histVars>>

CooldownFrames ==
    { PortfolioFrame(PortfolioNotification(OwnInstrument, Num(0))),
      OrdersFrame(OrderNotification(BidId, "filled", Num(29998))),
      OrdersFrame(<<OrderUpdate(BidId, "filled", Num(29998)),
                    OrderUpdate(AskId, "filled", Num(30002))>>),
      TickerFrame(Num(29999), Num(30001)) }

NextCooldown ==
    \/ ConnectAndAuthenticate
    \/ StartMessageProcessing
    \/ \E m \in CooldownFrames : received < MaxCooldownFrames /\ Receive(m)
    \/ \E t \in ClockReadings : Tick(t)
    \/ DispatchOrders
    \/ DispatchPortfolio
    \/ DispatchTicker
    \/ \E i \in 1..MaxTasks : UpdateQuotesStart(i)
    \/ \E i \in 1..MaxTasks : \E o \in {"ok", "order not found", "error"} : CallReturn(i, o)

SpecCooldown == Init /\ [][NextCooldown]_vars

\* Order notifications of every kind next to a recovery run: a fill and a
\* partial fill of the bid, a fill of the ask, a cancellation, and a fill of
\* an order that is none of the quoter's (client order id 7777).
FillFrames ==
    { OrdersFrame(OrderNotification(BidId, "filled", Num(29998))),
      OrdersFrame(OrderNotification(BidId, "partially_filled", Num(29998))),
      OrdersFrame(OrderNotification(AskId, "filled", Num(30002))),
      OrdersFrame(OrderNotification(AskId, "cancelled", Num(30002))),
      OrdersFrame(OrderNotification(7777, "filled", Num(30000))) }

NextFills ==
    \/ ConnectAndAuthenticate
    \/ StartMessageProcessing
    \/ \E m \in FillFrames : received < MaxFillFrames /\ Receive(m)
    \/ \E t \in ClockReadings : Tick(t)
    \/ DispatchOrders
    \/ Len(rec) < 1 /\ ExchangeError(TRUE)
    \/ RecoveryStart(1)
    \/ \E ok \in BOOLEAN : CancelAllReturn(1, ok)
    \/ RecoverySettled(1)

SpecFills == Init /\ [][NextFills]_vars

\* The quote engine over its inputs: the volatility the quoter is constructed
\* with (None: unknown), positions inside, at and
\* beyond +-max_position, and books whose best prices are one tick, two ticks
\* and nine and a half ticks from the mid.
Volatilities == {None, Num(0), <<1, 5>>, <<1, 2>>}

EnginePositions == {Num(0), <<3, 20>>, max_position, <<1, 2>>, RNeg(max_position)}

EngineFrames ==
    { PortfolioFrame(PortfolioNotification(OwnInstrument, P)) : P \in EnginePositions }
    \cup { TickerFrame(Num(29999), Num(30001)),
           TickerFrame(Num(29998), Num(30002)),
           TickerFrame(<<59981, 2>>, <<60019, 2>>) }

InitEngine == \E volatility \in Volatilities : Constructed(volatility)

NextEngine ==
    \/ ConnectAndAuthenticate
    \/ StartMessageProcessing
    \/ \E m \in EngineFrames : received < MaxEngineFrames /\ Receive(m)
    \/ DispatchPortfolio
    \/ DispatchTicker
    \/ \E i \in 1..MaxTasks : UpdateQuotesStart(i)
    \/ \E i \in 1..MaxTasks : \E o \in {"ok", "order not found", "error"} : CallReturn(i, o)

SpecEngine == InitEngine /\ [][NextEngine]_vars

\* utils.py on its own: round_to_tick and round_size are called with the
\* quarter ticks on both sides of zero (whole ticks, ties and the values
\* between them), and then with their own result.
Calculate(f, x) ==
    /\ calc' = IF f = "round_to_tick"
               THEN [f |-> f, x |-> x, once |-> round_to_tick(x),
                     twice |-> round_to_tick(round_to_tick(x))]
               ELSE [f |-> f, x |-> x, once |-> round_size(x),
                     twice |-> round_size(round_size(x))]
    /\ UNCHANGED <<quoterVars, coolVars, recovering_from_desync, pipeVars, uq, rec, now,
                   histVars, conn, loops, requests, retry_count, main_pc, periodic, cleanup_log>>

\* update_quotes, lines 320-339, on their own: the sizes of a quote cycle for
\* a volatility and a position.
CalculateSizes(vol, P) ==
    /\ calc' = [f |-> "sizes", volatility |-> vol, position |-> P,
                bid_size |-> BidSize(vol, P), ask_size |-> AskSize(vol, P)]
    /\ UNCHANGED <<quoterVars, coolVars, recovering_from_desync, pipeVars, uq, rec, now,
                   histVars, conn, loops, requests, retry_count, main_pc, periodic, cleanup_log>>

\* Positions inside the limits, a tenth of a size tick apart, up to MaxTenths
\* tenths away from either limit, and the flat position.
SizePositions ==
    {Num(0)}
    \cup { RSub(max_position, RMul(Rat(k, 10), size_tick)) : k \in 0..MaxTenths }
    \cup { RAdd(RNeg(max_position), RMul(Rat(k, 10), size_tick)) : k \in 0..MaxTenths }

NextSizes == \E vol \in Volatilities : \E P \in SizePositions : CalculateSizes(vol, P)

SpecSizes == Init /\ [][NextSizes]_vars

\* _handle_ticker_update and update_quotes, lines 274-318, on their own: the
\* prices of a quote cycle a ticker starts, for a volatility, a position, the
\* recovery state of either side and a book.
CalculatePrices(vol, P, bid_in_recovery, ask_in_recovery, book) ==
    /\ LET mid_price == RDiv(RAdd(book[1], book[2]), Num(2))
       IN  calc' = [f |-> "prices", volatility |-> vol, position |-> P,
                    bid_in_recovery |-> bid_in_recovery,
                    ask_in_recovery |-> ask_in_recovery,
                    best_bid |-> book[1], best_ask |-> book[2],
                    bid_price |-> BidPrice(mid_price, book[1],
                                           BidSpread(vol, P, bid_in_recovery)),
                    ask_price |-> AskPrice(mid_price, book[2],
                                           AskSpread(vol, P, ask_in_recovery))]
    /\ UNCHANGED <<quoterVars, coolVars, recovering_from_desync, pipeVars, uq, rec, now,
                   histVars, conn, loops, requests, retry_count, main_pc, periodic, cleanup_log>>

\* Best bid and best ask: one, two and nine and a half ticks from the mid
\* 30000, a locked book at 30000, and a locked book at a price so low that
\* the spread rounds away.
Books ==
    { <<Num(29999), Num(30001)>>, <<Num(29998), Num(30002)>>,
      <<<<59981, 2>>, <<60019, 2>>>>, <<Num(30000), Num(30000)>>, <<Num(2), Num(2)>> }

NextPrices ==
    \E vol \in Volatilities : \E P \in EnginePositions :
        \E bid_in_recovery \in BOOLEAN : \E ask_in_recovery \in BOOLEAN :
            \E book \in Books :
                CalculatePrices(vol, P, bid_in_recovery, ask_in_recovery, book)

SpecPrices == Init /\ [][NextPrices]_vars

NextRound ==
    \E k \in -MaxQuarters..MaxQuarters :
        \/ Calculate("round_to_tick", RMul(Rat(k, 4), price_tick))
        \/ Calculate("round_size", RMul(Rat(k, 4), size_tick))

SpecRound == Init /\ [][NextRound]_vars

\* Establishing the session: the calls quote() makes to
\* connect_and_authenticate, each exchange-client call succeeding or failing.
NextConnect ==
    \/ ConnectInvoke
    \/ \E o \in {"ok", "websocket error", "error"} : \E still \in BOOLEAN :
           ConnectCallReturn(o, still)
    \/ ConnectBackoffDone

SpecConnect == Init /\ [][NextConnect]_vars

\* The two request loops next to a receiver that loses and regains the
\* connection.
NextLoops ==
    \/ ConnectAndAuthenticate
    \/ StartMessageProcessing
    \/ ReceiverConnectionError
    \/ \E ok \in BOOLEAN : Reconnected(ok)
    \/ DispatchSentinel
    \/ \E l \in Loops : LoopRun(l)
    \/ \E l \in Loops : LoopResume(l)
    \/ \E l \in Loops : \E ok \in BOOLEAN : LoopRequestReturn(l, ok)

SpecLoops == Init /\ [][NextLoops]_vars

\* The same on a connection that delivers no frame, with every step taken
\* that the program takes by itself: a sleep ends, a woken task resumes, a
\* request or connect_and_authenticate comes back, the dispatcher takes the
\* sentinel, the receiver that slept after a failed reconnect tests the
\* connection again.  tlx.receive() raising is left to the connection.
SpecLoopsFair ==
    /\ SpecLoops
    /\ \A l \in Loops : WF_vars(LoopRun(l)) /\ WF_vars(LoopResume(l))
    /\ \A l \in Loops : WF_vars(\E ok \in BOOLEAN : LoopRequestReturn(l, ok))
    /\ WF_vars(\E ok \in BOOLEAN : Reconnected(ok))
    /\ WF_vars(DispatchSentinel)
    /\ WF_vars(receiver = "retrying" /\ ReceiverConnectionError)

\* cancel_order_if_exists: a session in which the bid is filled, so that the
\* bid side cools down from then on (the clock stands), and in which the cache
\* entry of the bid is then overwritten by the return of an insert sent before
\* the fill, or removed by a desync recovery.
CancelFrames ==
    { PortfolioFrame(PortfolioNotification(OwnInstrument, Num(0))),
      OrdersFrame(OrderNotification(BidId, "filled", Num(29998))),
      TickerFrame(Num(29999), Num(30001)) }

NextCancel ==
    \/ ConnectAndAuthenticate
    \/ StartMessageProcessing
    \/ \E m \in CancelFrames : received < MaxCancelFrames /\ Receive(m)
    \/ DispatchOrders
    \/ DispatchPortfolio
    \/ DispatchTicker
    \/ \E i \in 1..MaxTasks : UpdateQuotesStart(i)
    \/ \E i \in 1..MaxTasks : \E o \in {"ok", "order not found", "error"} : CallReturn(i, o)
    \/ \E i \in 1..MaxTasks : SleepReturn(i)
    \/ Len(rec) < 1 /\ ExchangeError(TRUE)
    \/ RecoveryStart(1)
    \/ \E ok \in BOOLEAN : CancelAllReturn(1, ok)
    \/ RecoverySettled(1)

SpecCancel == Init /\ [][NextCancel]_vars

\* Malformed frames: a frame json.loads rejects and a ticker result with null
\* prices, between a portfolio notification and a well-formed ticker result.
MalformedFrames ==
    { Unparsable,
      TickerFrame(None, None),
      PortfolioFrame(PortfolioNotification(OwnInstrument, Num(0))),
      TickerFrame(Num(29999), Num(30001)) }

NextMalformed ==
    \/ ConnectAndAuthenticate
    \/ StartMessageProcessing
    \/ \E m \in MalformedFrames : received < MaxMalformedFrames /\ Receive(m)
    \/ DispatchPortfolio
    \/ DispatchTicker
    \/ DispatchOther
    \/ DispatchRaising

SpecMalformed == Init /\ [][NextMalformed]_vars

\* Recovery runs on their own, next to the order notifications that fill the
\* cache: every recovery task is scheduled, and every call it awaits,
\* cancel_all and the settle wait, comes back.
NextDesync ==
    \/ ConnectAndAuthenticate
    \/ StartMessageProcessing
    \/ /\ received < MaxDesyncFrames
       /\ Receive(OrdersFrame(OrderNotification(BidId, "open", Num(29993))))
    \/ DispatchOrders
    \/ \E notfound \in BOOLEAN : ExchangeError(notfound)
    \/ \E j \in 1..MaxRecoveries : RecoveryStart(j)
    \/ \E j \in 1..MaxRecoveries : \E ok \in BOOLEAN : CancelAllReturn(j, ok)
    \/ \E j \in 1..MaxRecoveries : RecoverySettled(j)

SpecDesync ==
    /\ Init /\ [][NextDesync]_vars
    /\ \A j \in 1..MaxRecoveries :
          /\ WF_vars(RecoveryStart(j))
          /\ WF_vars(\E ok \in BOOLEAN : CancelAllReturn(j, ok))
          /\ WF_vars(RecoverySettled(j))

\* ------------------------------------------------------------------------
\* quote() and main(): the lifecycle and its restarts
\* ------------------------------------------------------------------------

\* quote(), line 467
quote_max_retries == 3

\* A variant of the loop at line 498 whose list lacks the account-summary
\* task.
CancelPeriodicButOne ==
    /\ main_pc = "quote"
    /\ dispatcher = "ended"
    /\ periodic.cancelled < Len(PeriodicTasks)
    /\ LET n == periodic.cancelled + 1
       IN  periodic' = [alive |-> IF PeriodicTasks[n] = "account_summary_loop"
                                  THEN periodic.alive
                                  ELSE [periodic.alive EXCEPT ![n] = @ - 1],
                        cancelled |-> n]
    /\ UNCHANGED <<conn, loops, requests, calc, retry_count, main_pc, cleanup_log, quoterVars,
                   coolVars, recovering_from_desync, pipeVars, uq, rec, now, histVars>>

\* quote(), lines 496-508: start_message_processing has returned; the next
\* task of the list is cancelled and awaited until it has finished.
CancelPeriodic ==
    /\ main_pc = "quote"
    /\ dispatcher = "ended"
    /\ periodic.cancelled < Len(PeriodicTasks)
    /\ LET n == periodic.cancelled + 1
       IN  periodic' = [alive |-> [periodic.alive EXCEPT ![n] = @ - 1], cancelled |-> n]
    /\ UNCHANGED <<conn, loops, requests, calc, retry_count, main_pc, cleanup_log, quoterVars,
                   coolVars, recovering_from_desync, pipeVars, uq, rec, now, histVars>>

\* The receiver task exists and is not done.
ReceiverAlive == receiver \in {"running", "reconnecting", "retrying"}

\* stop() and cleanup(), lines 228-261: what cleanup() requests, in order.
\* alive: the receiver task is not done; open: the websocket is open.
CleanupCalls(alive, open) ==
    (IF alive THEN <<"receiver_task.cancel">> ELSE <<>>)
    \o (IF open THEN <<"cancel_session", "disconnect">> ELSE <<>>)

\* quote(), lines 472-519: one lifecycle of quote() is over.  Either
\* connect_and_authenticate returned False or test_connection failed and the
\* exception was caught (lines 474-481, 510), or start_message_processing
\* returned and the background tasks were cancelled (lines 494-508).  The
\* count goes up; below the maximum quote() sleeps and goes round again,
\* at the maximum it leaves the loop and returns.
QuoteRetry ==
    /\ main_pc = "quote"
    /\ retry_count < quote_max_retries
    /\ \/ /\ dispatcher = "ended"
          /\ periodic.cancelled = Len(PeriodicTasks)
          /\ UNCHANGED authenticated
       \/ /\ dispatcher = "idle"
          /\ \E failed \in {"connect_and_authenticate", "test_connection"} :
                authenticated' = (failed = "test_connection")
    /\ retry_count' = retry_count + 1
    /\ loops' = [l \in Loops |-> NotStarted]
    /\ IF retry_count + 1 < quote_max_retries
       THEN /\ dispatcher' = "idle"
            /\ receiver' = "none"
            /\ UNCHANGED <<is_running, cleanup_log>>
       ELSE /\ is_running' = FALSE
            /\ \E open \in BOOLEAN :
                  cleanup_log' = cleanup_log \o CleanupCalls(ReceiverAlive, open)
            /\ UNCHANGED <<dispatcher, receiver>>
    /\ UNCHANGED <<conn, requests, calc, main_pc, periodic, quoterVars, coolVars,
                   recovering_from_desync, message_queue, consecutive_errors, uq, rec, now,
                   histVars>>

\* main(), lines 545-549 and 558-562: quote() returned, no exception reached
\* main(); after the finally clause the loop goes round and builds a new
\* client and a new Quoter.
MainRestart ==
    /\ main_pc = "quote"
    /\ retry_count = quote_max_retries
    /\ quotes' = <<>>
    /\ position' = None
    /\ mid' = None
    /\ last_bid_spread' = None
    /\ last_ask_spread' = None
    /\ current_volatility' = Num(0)
    /\ last_bid_fill_time' = None
    /\ last_ask_fill_time' = None
    /\ bid_cooldown_until' = None
    /\ ask_cooldown_until' = None
    /\ bid_recovery_until' = None
    /\ ask_recovery_until' = None
    /\ recovering_from_desync' = FALSE
    /\ message_queue' = <<>>
    /\ is_running' = FALSE
    /\ authenticated' = FALSE
    /\ consecutive_errors' = 0
    /\ receiver' = "none"
    /\ dispatcher' = "idle"
    /\ uq' = <<>>
    /\ rec' = <<>>
    /\ conn' = NotConnecting
    /\ loops' = [l \in Loops |-> NotStarted]
    /\ retry_count' = 0
    /\ received' = 0
    /\ dispLog' = <<>>
    /\ modSeq' = 0
    /\ last' = [s \in Slots |-> NotDone]
    /\ requests' = <<>>
    /\ periodic' = NoPeriodic
    /\ cleanup_log' = <<>>
    /\ UNCHANGED <<now, calc, main_pc>>

\* main(), lines 546-547 and 554-556: building the client or the Quoter raised;
\* main() logs the error and sleeps.
MainFatal ==
    /\ main_pc = "quote"
    /\ retry_count = 0 /\ dispatcher = "idle" /\ receiver = "none" /\ ~authenticated
    /\ main_pc' = "sleep"
    /\ UNCHANGED <<conn, loops, requests, calc, retry_count, periodic, cleanup_log, quoterVars,
                   coolVars, recovering_from_desync, pipeVars, uq, rec, now, histVars>>

\* main(), lines 556-557: the sleep is over; continue
MainSleepDone ==
    /\ main_pc = "sleep"
    /\ main_pc' = "quote"
    /\ UNCHANGED <<conn, loops, requests, calc, retry_count, periodic, cleanup_log, quoterVars,
                   coolVars, recovering_from_desync, pipeVars, uq, rec, now, histVars>>

\* main(), lines 550-562: the process is interrupted while the session is up.
\* The exception leaves quote() at once, past the loop at line 498, and
\* main()'s finally clause runs cleanup(); then main() ends.
Interrupt ==
    /\ main_pc = "quote"
    /\ dispatcher = "running"
    /\ main_pc' = "ended"
    /\ dispatcher' = "ended"
    /\ is_running' = FALSE
    /\ receiver' = "stopped"
    /\ \E open \in BOOLEAN :
          cleanup_log' = cleanup_log \o CleanupCalls(ReceiverAlive, open)
    /\ UNCHANGED <<conn, loops, requests, calc, retry_count, periodic, quoterVars, coolVars,
                   recovering_from_desync, message_queue, authenticated, consecutive_errors,
                   uq, rec, now, histVars>>

\* The lifecycle under receiver faults: frames that start no task, the
\* receiver's failures and reconnects, the sentinel, the restarts.
NextRestart ==
    \/ main_pc = "quote" /\ retry_count < quote_max_retries /\ ConnectAndAuthenticate
    \/ main_pc = "quote" /\ retry_count < quote_max_retries /\ StartMessageProcessing
    \/ \E m \in {PortfolioFrame(PortfolioNotification(OwnInstrument, Num(0))),
                  AccountSummaryFrame} :
          received < MaxRestartFrames /\ Receive(m)
    \/ ReceiverConnectionError
    \/ \E ok \in BOOLEAN : Reconnected(ok)
    \/ ReceiverError
    \/ DispatchPortfolio
    \/ DispatchOther
    \/ DispatchSentinel
    \/ CancelPeriodic
    \/ QuoteRetry
    \/ MainRestart
    \/ MainFatal
    \/ MainSleepDone

\* The event loop runs every task that is ready: the dispatcher takes what is
\* queued, quote() and main() go on when the call they await has returned.
SpecRestart ==
    /\ Init /\ [][NextRestart]_vars
    /\ WF_vars(DispatchPortfolio) /\ WF_vars(DispatchOther) /\ WF_vars(DispatchSentinel)
    /\ WF_vars(CancelPeriodic)
    /\ WF_vars(dispatcher = "ended" /\ QuoteRetry)
    /\ WF_vars(MainRestart) /\ WF_vars(MainSleepDone)

\* The same lifecycle with an interrupt of the process.
NextShutdown == NextRestart \/ Interrupt

SpecShutdown == Init /\ [][NextShutdown]_vars

\* ------------------------------------------------------------------------
\* Properties
\* ------------------------------------------------------------------------

\* The tasks whose insert, amend or cancel call for the slot is in flight.
InFlight(slot) ==
    {i \in DOMAIN uq : /\ uq[i].pc = "call"
                       /\ uq[i].side = slot
                       /\ uq[i].log[Len(uq[i].log)].kind \in {"insert", "amend", "cancel"}}

\* C1: at any time at most one insert, amend or cancel call that has been sent
\* and has not returned is outstanding for a slot.
C1_OneCallPerSlot == \A slot \in Slots : Cardinality(InFlight(slot)) <= 1

\* The reconciliation of task i that is under way, in the shape of a finished one.
Current(i) ==
    [done |-> FALSE, path |-> uq[i].path, entry |-> uq[i].entry,
     price |-> uq[i].price[uq[i].side], amount |-> uq[i].amount[uq[i].side],
     log |-> uq[i].log, ret |-> NotRead]

\* Every reconciliation the state knows of: those under way and, per slot,
\* the last one that returned.
Reconciliations ==
    {Current(i) : i \in {j \in DOMAIN uq : uq[j].pc \in {"call", "sleep"}}}
        \cup {last[s] : s \in {x \in Slots : last[x].done}}

\* C2: no insert and no amend is sent for a slot while its side is cooling
\* down, whatever flags the sending task computed at its start.
C2_NoQuoteWhileCoolingDown ==
    \A r \in Reconciliations : \A k \in DOMAIN r.log :
        r.log[k].kind \in {"insert", "amend"} => ~r.log[k].cool

\* The inserts among the calls of a reconciliation.
Inserts(r) == {j \in DOMAIN r.log : r.log[j].kind = "insert"}

\* C3: an amend that failed with "order not found" left the slot's cache
\* status unknown, is the only amend of its adjust_order call, and is followed
\* by exactly one insert when the desired size is positive and by none when it
\* is zero.
C3_AmendOrderNotFound ==
    \A r \in Reconciliations : \A k \in DOMAIN r.log :
        (r.log[k].kind = "amend" /\ r.log[k].outcome = "order not found") =>
            /\ r.log[k].after.status = "unknown"
            /\ \A j \in DOMAIN r.log : r.log[j].kind = "amend" => j = k
            /\ \A j \in Inserts(r) : j = k + 1
            /\ Cardinality(Inserts(r)) = IF RLt(Num(0), r.amount) THEN 1 ELSE 0

C3_Witness ==
    \E s \in Slots :
        /\ last[s].done
        /\ Len(last[s].log) = 2
        /\ last[s].log[1].kind = "amend"
        /\ last[s].log[1].outcome = "order not found"
        /\ last[s].log[2].kind = "insert"

\* C4: when adjust_order returns after an insert or an amend the exchange
\* client accepted, the slot's cache entry is open at the submitted price.
C4_AcceptedCallCached ==
    \A s \in Slots :
        (last[s].done /\ last[s].log # <<>>) =>
            LET c == last[s].log[Len(last[s].log)]
            IN  (c.kind \in {"insert", "amend"} /\ c.outcome = "ok") =>
                    last[s].ret = Order("open", c.price)

Dispatching(channel) ==
    /\ CanDispatch
    /\ ~QueueGet(message_queue).sentinel
    /\ Channel(QueueGet(message_queue).msg) = channel
    /\ dispLog' # dispLog

\* C6: the dispatch of an error frame whose message contains "order not
\* found", while no recovery is active, spawns a recovery task.
C6_ErrorFrameEscalates ==
    [][(/\ Dispatching("error")
        /\ QueueGet(message_queue).msg.error = "order not found"
        /\ ~recovering_from_desync)
       => Len(rec') = Len(rec) + 1]_vars

\* The frames waiting in the queue.
Waiting == SelectSeq(message_queue, LAMBDA e : ~e.sentinel)

\* C7: the frames are dispatched in the order they were received, each once:
\* the k-th dispatch is the k-th frame received, and the frames received and
\* not yet dispatched wait in the queue in receipt order.
C7_DispatchInReceiptOrder ==
    /\ \A k \in DOMAIN dispLog : dispLog[k] = k
    /\ \A k \in DOMAIN Waiting : Waiting[k].id = Len(dispLog) + k
    /\ Len(dispLog) + Len(Waiting) = received

C7_Witness == dispatcher = "ended" /\ Len(dispLog) >= 2

\* Task i reads the quoter state in the step: at its start, or when it goes on
\* to its second side.
ReadsState(i) ==
    \/ uq[i].pc = "spawned" /\ uq'[i].pc # "spawned"
    \/ /\ uq[i].pc \in {"call", "sleep"}
       /\ uq[i].side = BidId
       /\ uq'[i].pc = "done" \/ uq'[i].side = AskId

\* C8: whenever a task reads the cache, the position and the cooldown state,
\* no notification dispatched after its trigger has modified them.
C8_ReadsStateAsOfTrigger ==
    [][\A i \in DOMAIN uq : ReadsState(i) => modSeq = uq[i].trig]_vars

\* The notification holds a trade of the quoted instrument with the own label.
HasOwnTrade(notification) ==
    \E k \in DOMAIN notification :
        /\ notification[k].instrument = OwnInstrument
        /\ notification[k].label = OwnLabel

\* The update_quotes tasks the step spawns.
Spawned == Len(uq') - Len(uq)

\* C9, as stated: the dispatch of a trades notification spawns exactly one
\* recomputation when it holds an own trade and none otherwise.
C9_OwnTradeAlwaysTriggers ==
    [][Dispatching("trades") =>
        Spawned = IF HasOwnTrade(QueueGet(message_queue).msg.notification) THEN 1 ELSE 0]_vars

\* C9, amended: the dispatch of a trades notification spawns exactly one
\* recomputation, at the current mid, when it holds an own trade and a mid is
\* known; it spawns none when it holds no own trade or no mid is known yet.
C9_OwnTradeTriggersOnceMidKnown ==
    [][Dispatching("trades") =>
        IF HasOwnTrade(QueueGet(message_queue).msg.notification) /\ mid # None
        THEN /\ Spawned = 1
             /\ uq'[Len(uq')].trigger = "trades"
             /\ uq'[Len(uq')].new_mid = mid
        ELSE Spawned = 0]_vars

C9_Witness == \E i \in DOMAIN uq : uq[i].trigger = "trades"

\* C10: adjust_order sends an amend exactly when the cached status is open or
\* partially_filled and the desired size is zero or the cached price is more
\* than amend_threshold from the desired price; for an open order, a positive
\* size and a price within the threshold it sends nothing and returns with the
\* cache entry as it found it.
C10_AmendExactlyWhenNeeded ==
    \A r \in Reconciliations :
        r.path = "adjust" =>
            LET far == RLt(Num(amend_threshold), RAbs(RSub(r.entry.price, r.price)))
                live == r.entry.status \in {"open", "partially_filled"}
            IN  /\ (\E k \in DOMAIN r.log : r.log[k].kind = "amend")
                       <=> (live /\ (r.amount = Num(0) \/ far))
                /\ (r.done /\ live /\ RLt(Num(0), r.amount) /\ ~far)
                       => (r.log = <<>> /\ r.ret = r.entry)

C10_Witness ==
    \E s \in Slots :
        /\ last[s].done
        /\ last[s].path = "adjust"
        /\ last[s].entry.status = "open"
        /\ last[s].log # <<>>
        /\ last[s].log[1].kind = "amend"
        /\ last[s].log[1].outcome = "ok"

\* The reconciliations of a slot the state knows of.
ReconciliationsOf(s) ==
    {Current(i) : i \in {j \in DOMAIN uq : uq[j].pc \in {"call", "sleep"} /\ uq[j].side = s}}
        \cup {last[x] : x \in {y \in {s} : last[y].done}}

\* C11: when the cached status is not open or partially_filled, adjust_order
\* sends exactly one insert, with the slot's client order id, the strategy
\* label and the desired price and size, if the desired size is positive; if
\* it is zero it sends nothing and returns with the cache entry as it found it.
C11_InsertWhenNotOpen ==
    \A s \in Slots : \A r \in ReconciliationsOf(s) :
        (r.path = "adjust" /\ r.entry.status \notin {"open", "partially_filled"}) =>
            IF RLt(Num(0), r.amount)
            THEN /\ Len(r.log) = 1
                 /\ r.log[1].kind = "insert"
                 /\ r.log[1].client_order_id = s
                 /\ r.log[1].label = "simple_quoter"
                 /\ r.log[1].price = r.price
                 /\ r.log[1].amount = r.amount
            ELSE /\ r.log = <<>>
                 /\ r.done => r.ret = r.entry

C11_Witness ==
    \E s \in Slots :
        /\ last[s].done
        /\ last[s].path = "adjust"
        /\ last[s].entry.status = "cancelled"
        /\ Len(last[s].log) = 1
        /\ last[s].log[1].kind = "insert"
        /\ last[s].log[1].outcome = "ok"

\* Task i starts running in the step.
Starting(i) == uq[i].pc = "spawned" /\ uq'[i].pc # "spawned"

\* C12: a task that starts while the position is unknown, or while both sides
\* are cooling down, ends in the same step without an exchange call and
\* leaves mid, the last spreads, the order cache and the record of finished
\* reconciliations as they were.
C12_SkipLeavesAllUnchanged ==
    [][\A i \in DOMAIN uq :
        (/\ Starting(i)
         /\ \/ position = None
            \/ /\ bid_cooldown_until # None /\ now < bid_cooldown_until[1]
               /\ ask_cooldown_until # None /\ now < ask_cooldown_until[1])
        => /\ uq'[i].pc = "done"
           /\ uq'[i].log = <<>>
           /\ \A j \in DOMAIN uq : j # i => uq'[j] = uq[j]
           /\ mid' = mid
           /\ last_bid_spread' = last_bid_spread
           /\ last_ask_spread' = last_ask_spread
           /\ quotes' = quotes
           /\ last' = last]_vars

C12_Witness ==
    \E i \in DOMAIN uq :
        /\ uq[i].pc = "done"
        /\ uq[i].path = "both sides cooling down"
        /\ position # None

\* The notification reports a fill of the slot's order.
ReportsFill(notification, slot) ==
    \E k \in DOMAIN notification :
        /\ notification[k].client_order_id = slot
        /\ notification[k].status = "filled"

\* C13: the dispatch of an order notification that reports a fill for a side
\* sets that side's fill time to the time of the dispatch, its cooldown_until
\* to that time plus the cooldown and its recovery_until to cooldown_until
\* plus the recovery, whatever the thresholds were before.
C13_FillRestartsWindows ==
    [][Dispatching("session.orders") =>
        LET notification == QueueGet(message_queue).msg.notification
        IN  /\ ReportsFill(notification, 1001) =>
                /\ last_bid_fill_time' = <<now>>
                /\ bid_cooldown_until' = <<now + 5>>
                /\ bid_recovery_until' = <<now + 5 + 30>>
            /\ ReportsFill(notification, 1002) =>
                /\ last_ask_fill_time' = <<now>>
                /\ ask_cooldown_until' = <<now + 5>>
                /\ ask_recovery_until' = <<now + 5 + 30>>]_vars

\* Both sides filled at t = 100 (105 and 135 on the ask side), the bid filled
\* again at t = 104 while it was cooling down.
C13_Witness ==
    /\ last_ask_fill_time = <<100>>
    /\ ask_cooldown_until = <<105>>
    /\ ask_recovery_until = <<135>>
    /\ last_bid_fill_time = <<104>>
    /\ bid_cooldown_until = <<109>>
    /\ bid_recovery_until = <<139>>

\* The state of a side at the time now, from its two deadlines.
SideState(cooldown_until, recovery_until) ==
    IF now < cooldown_until[1] THEN "Cooldown"
    ELSE IF now < recovery_until[1] THEN "Recovery"
    ELSE "Normal"

\* C14: a task that starts and does not skip treats a side that has been
\* filled as in Cooldown when now < cooldown_until, as in Recovery when
\* cooldown_until <= now < recovery_until, and as Normal from recovery_until
\* on: its cooldown flag is set in Cooldown only, and the spread it records is
\* the normal spread times recovery_spread_multiplier in Recovery and the
\* normal spread otherwise.  The two flags are never both true.
C14_OneStatePerSide ==
    [][/\ ~(BidInCooldown /\ BidInRecovery)
       /\ ~(AskInCooldown /\ AskInRecovery)
       /\ \A i \in DOMAIN uq :
            (Starting(i) /\ uq'[i].path \notin Skips) =>
                /\ bid_cooldown_until # None =>
                     LET state == SideState(bid_cooldown_until, bid_recovery_until)
                         normal == BidSpread(current_volatility, position, FALSE)
                     IN  /\ uq'[i].pc # "done" =>
                                (uq'[i].bid_in_cooldown <=> state = "Cooldown")
                         /\ last_bid_spread' =
                                IF state = "Recovery"
                                THEN RMul(normal, recovery_spread_multiplier)
                                ELSE normal
                /\ ask_cooldown_until # None =>
                     LET state == SideState(ask_cooldown_until, ask_recovery_until)
                         normal == AskSpread(current_volatility, position, FALSE)
                     IN  /\ uq'[i].pc # "done" =>
                                (uq'[i].ask_in_cooldown <=> state = "Cooldown")
                         /\ last_ask_spread' =
                                IF state = "Recovery"
                                THEN RMul(normal, recovery_spread_multiplier)
                                ELSE normal]_vars

\* Bid filled at t = 100; a cycle at t = 120 recorded three times the
\* minimum spread for the bid.
C14_Witness ==
    /\ now = 120
    /\ last_bid_fill_time = <<100>>
    /\ last_bid_spread = <<3, 2>>

\* The steps one attempt of connect_and_authenticate awaits, given whether
\* the socket was connected when the attempt began.
Expected(was_connected) == IF was_connected THEN Tail(Steps) ELSE Steps

Failed(call) == call.outcome \notin {"ok", "pending"}

\* C15: connect_and_authenticate makes at most three attempts; an attempt
\* awaits connect (left out when the socket is already connected), login,
\* set_cancel_on_disconnect and private_subscribe in this order and awaits
\* nothing after the first of them that fails; the waits after failed attempts
\* are 2 s and then 4 s; it returns True as soon as one attempt has completed
\* all its steps, and False, without raising, once the third attempt failed.
C15_ConnectAttempts ==
    LET n == Len(conn.calls)
        expected == Expected(conn.was_connected)
        complete == /\ n = Len(expected)
                    /\ \A k \in 1..n : conn.calls[k].outcome = "ok"
    IN  conn.pc # "idle" =>
          /\ conn.attempt \in 1..3
          /\ n \in 1..Len(expected)
          /\ \A k \in 1..n : conn.calls[k].step = expected[k]
          /\ \A k \in 1..(n - 1) : conn.calls[k].outcome = "ok"
          /\ conn.delays \in {<<>>, <<2>>, <<2, 4>>}
          /\ Len(conn.delays) = IF conn.pc = "backoff" THEN conn.attempt ELSE conn.attempt - 1
          /\ (conn.pc = "backoff") = (Failed(conn.calls[n]) /\ conn.attempt < 3)
          /\ (conn.result = "True") = complete
          /\ (conn.result = "False") = (Failed(conn.calls[n]) /\ conn.attempt = 3)
          /\ (conn.pc = "returned") = (conn.result \in {"True", "False"})

\* The third attempt found the socket still connected, left connect out and
\* succeeded after waits of 2 s and 4 s.
C15_Witness ==
    /\ conn.result = "True"
    /\ conn.attempt = 3
    /\ conn.was_connected
    /\ conn.delays = <<2, 4>>
    /\ [k \in 1..3 |-> conn.calls[k].step] = Tail(Steps)

\* C16: every request of the ticker loop and of the account-summary loop is
\* sent while the authenticated signal is set, and a request that raised has
\* left the signal clear when its loop goes on.
C16_LoopsSendOnlyWhenAuthenticated ==
    \A k \in DOMAIN requests :
        /\ requests[k].authenticated
        /\ requests[k].outcome = "fault" => requests[k].cleared

\* The tasks that have computed their prices and sizes and are still running.
Quoting == {i \in DOMAIN uq : uq[i].pc \notin {"spawned", "done"}}

C18_OverExposedSideIsZero ==
    [][\A i \in DOMAIN uq :
          Starting(i) /\ uq'[i].pc # "done" /\ position # None =>
              /\ RLe(max_position, position) => uq'[i].amount[BidId] = Num(0)
              /\ RLe(position, RNeg(max_position)) => uq'[i].amount[AskId] = Num(0)]_vars

\* A cycle computed with the position beyond max_position and the volatility
\* unknown: no bid, and an ask of the full size.
C18_Witness ==
    \E i \in Quoting :
        /\ position = <<1, 2>>
        /\ current_volatility = None
        /\ uq[i].amount[BidId] = Num(0)
        /\ uq[i].amount[AskId] = size
        /\ uq[i].log # <<>>
        /\ uq[i].log[1].client_order_id = AskId

\* The cycle of the example: mid 30000, volatility 0.5, position 0, the best
\* prices one tick from the mid, so that the crossing guard moves nothing.
Example(i) ==
    /\ Starting(i)
    /\ uq'[i].pc # "done"
    /\ current_volatility = <<1, 2>>
    /\ position = Num(0)
    /\ uq[i].new_mid = Num(30000)
    /\ uq[i].best_bid = Num(29999)
    /\ uq[i].best_ask = Num(30001)

OnTick(value, tick) == RDiv(value, tick)[2] = 1

\* C19: every insert and every amend call carries a price that is a multiple
\* of the price tick and a size that is a multiple of the size tick.
C19_SentOnTick ==
    \A i \in DOMAIN uq : \A k \in DOMAIN uq[i].log :
        uq[i].log[k].kind \in {"insert", "amend"} =>
            /\ OnTick(uq[i].log[k].price, price_tick)
            /\ OnTick(uq[i].log[k].amount, size_tick)
            /\ uq[i].log[k].amount_exact

C22_LoopFaultLeadsToReconnect ==
    (/\ receiver = "running"
     /\ ~authenticated
     /\ \E k \in DOMAIN requests : requests[k].outcome = "fault")
        ~> (authenticated \/ receiver = "stopped")

\* C23: while the authenticated signal is clear the dispatcher hands no frame
\* to process_message, and no quote cycle issues an insert, an amend or a
\* cancel.
C23_OnlyWhileSubscribed ==
    [][/\ dispLog' # dispLog => authenticated
       /\ \A i \in DOMAIN uq :
              (/\ uq'[i] # uq[i]
               /\ uq'[i].pc = "call"
               /\ uq'[i].log[Len(uq'[i].log)].kind \in {"insert", "amend", "cancel"})
                  => authenticated]_vars

\* C24: when an insert returns after a filled notification for its slot was
\* dispatched while it was in flight (the cache says filled, and did not when
\* the insert was sent), and no order notification is waiting in the queue,
\* the slot's cached status is still the notification's, filled.
C24_NotificationCorrectsInsert ==
    [][\A i \in DOMAIN uq :
          LET t == uq[i]
              n == Len(t.log)
              sent == IF n = 1 THEN t.entry ELSE t.log[n - 1].after
          IN  (/\ t.pc = "call"
               /\ t.log[n].kind = "insert"
               /\ uq'[i] # t
               /\ CacheGet(quotes, t.side).status = "filled"
               /\ CacheGet(quotes, t.side) # sent
               /\ \A k \in DOMAIN message_queue :
                      Channel(message_queue[k].msg) # "session.orders")
                  => CacheGet(quotes', t.side).status = "filled"]_vars

\* The positions of the sentinels in the queue.
Sentinels == {i \in 1..Len(message_queue) : message_queue[i].sentinel}

\* The receiver stops exactly at the third failure in a row and then puts one
\* sentinel, last in the queue; a received frame or a successful
\* re-authentication sets the count to 0 and nothing else lowers it; when the
\* dispatcher has ended, every frame received was handed to process_message,
\* in order.
ReceiverFaultsEndTheLifecycle ==
    /\ [](/\ receiver = "stopped" => consecutive_errors = max_consecutive_errors
          /\ receiver \in {"running", "reconnecting", "retrying"}
                => consecutive_errors < max_consecutive_errors
          /\ Sentinels = IF receiver = "stopped" /\ dispatcher = "running"
                         THEN {Len(message_queue)} ELSE {}
          /\ dispatcher = "ended"
                => receiver = "stopped" /\ dispLog = [i \in 1..received |-> i])
    /\ [][/\ received' = received + 1 => consecutive_errors' = 0
          /\ receiver = "reconnecting" /\ authenticated' => consecutive_errors' = 0
          /\ consecutive_errors' \in {consecutive_errors, consecutive_errors + 1, 0}
          /\ consecutive_errors' = 0 /\ consecutive_errors # 0
                => \/ received' = received + 1
                   \/ receiver = "reconnecting" /\ authenticated'
                   \/ receiver' \in {"none", "running"} /\ receiver \in {"none", "stopped"}
          /\ receiver' = "stopped" /\ receiver # "stopped"
                => message_queue' = QueuePut(message_queue, Sentinel)]_vars

\* C25 (as stated): three failures in a row with no received frame and no
\* re-authentication between them stop the receiver, which queues one
\* sentinel; the dispatcher hands on every frame queued before it and ends on
\* it; the count goes back to 0 on a received frame or a re-authentication;
\* and after the dispatcher has ended it is the retry loop of quote() that
\* starts the next lifecycle.
C25_QuoteRestartsAfterSentinel ==
    /\ ReceiverFaultsEndTheLifecycle
    /\ [][dispatcher = "ended" /\ dispatcher' = "idle"
            => retry_count' = retry_count + 1]_vars
    /\ (dispatcher = "ended" ~> dispatcher = "idle")

\* C25 (amended): the same, except that the next lifecycle is started by
\* quote() only while fewer than quote_max_retries lifecycles have ended; after
\* that quote() returns and main() starts it with a new Quoter.
C25_RestartAfterSentinel ==
    /\ ReceiverFaultsEndTheLifecycle
    /\ [][dispatcher = "ended" /\ dispatcher' = "idle"
            => \/ /\ retry_count + 1 < quote_max_retries
                  /\ retry_count' = retry_count + 1
                  /\ quotes' = quotes /\ position' = position
               \/ /\ retry_count = quote_max_retries
                  /\ retry_count' = 0
                  /\ quotes' = <<>> /\ position' = None]_vars
    /\ [][retry_count' = quote_max_retries /\ retry_count # quote_max_retries
            => dispatcher' = dispatcher]_vars
    /\ (dispatcher = "ended" ~> dispatcher = "idle")

\* quote() has started its second lifecycle after the first was ended by the
\* sentinel of a receiver that failed three times, both frames dispatched.
C25_Witness ==
    /\ dispatcher = "idle"
    /\ retry_count = 1
    /\ consecutive_errors = max_consecutive_errors
    /\ dispLog = <<1, 2>>

CancelRuns ==
    {[entry |-> uq[i].entry, log |-> uq[i].log, returned |-> FALSE] :
        i \in {k \in DOMAIN uq : uq[k].pc \in {"call", "sleep"} /\ uq[k].path = "cancel"}}
    \cup
    {[entry |-> last[s].entry, log |-> last[s].log, returned |-> TRUE] :
        s \in {k \in Slots : last[k].done /\ last[k].path = "cancel"}}

\* The kinds of the calls of a log, in order.
Kinds(log) == [n \in 1..Len(log) |-> log[n].kind]

\* C27: cancel_order_if_exists sends nothing when the status it reads is
\* filled or cancelled; when the status is absent or unknown it sends one
\* order_status first, and a cancel follows only when the entry read again
\* after the sleep is open or partially_filled; no run sends more than one
\* order_status or more than one cancel.
C27_CancelRefreshesOnceCancelsOnce ==
    /\ \A r \in CancelRuns :
          /\ Kinds(r.log) \in {<<>>, <<"order_status">>, <<"cancel">>,
                                <<"order_status", "cancel">>}
          /\ r.entry.status \in {"filled", "cancelled"} => r.log = <<>>
          /\ r.entry.status \in {"", "unknown"}
                => r.log # <<>> /\ r.log[1].kind = "order_status"
          /\ r.log # <<>> /\ r.log[1].kind = "order_status"
                => r.entry.status \in {"", "unknown"}
    /\ \A i \in DOMAIN uq :
          uq[i].pc = "call" /\ uq[i].log[Len(uq[i].log)].kind = "cancel"
              => IsOpen(uq[i].confirmed.status)

\* A run that found no usable status, refreshed it, read an open order after
\* the sleep and cancelled it has returned.
C27_Witness ==
    \E s \in Slots :
        /\ last[s].done /\ last[s].path = "cancel"
        /\ last[s].entry.status \in {"", "unknown"}
        /\ Kinds(last[s].log) = <<"order_status", "cancel">>

\* C28: when the cancel call of a side in cooldown comes back, however it
\* comes back, cancel_order_if_exists returns with that cancel as its last
\* call (no insert follows): the cached status is then cancelled after a
\* success and unknown after "order not found", and the cache is as it was
\* after any other failure; and the task goes on: after the bid side it is
\* suspended in a call for the ask side or has finished the ask side.
C28_CancelNeverRaises ==
    [][\A i \in DOMAIN uq :
         LET t == uq[i]
             n == Len(t.log)
             r == last'[t.side]
         IN  t.pc = "call" /\ t.log[n].kind = "cancel" /\ uq'[i] # t
             => /\ r.done /\ r.path = "cancel" /\ Kinds(r.log) = Kinds(t.log)
                /\ r.log[n].outcome \in {"ok", "order not found", "error"}
                /\ r.log[n].outcome = "ok"
                      => CacheGet(quotes', t.side).status = "cancelled"
                /\ r.log[n].outcome = "order not found"
                      => CacheGet(quotes', t.side).status = "unknown"
                /\ r.log[n].outcome = "error" => quotes' = quotes
                /\ t.side = BidId
                      => \/ uq'[i].pc = "call" /\ uq'[i].side = AskId
                         \/ uq'[i].pc = "done" /\ last'[AskId].done]_vars

\* The cancel of the bid in cooldown found no order: the cached status is
\* unknown, and the same cycle has sent the ask.
C28_Witness ==
    /\ last[BidId].done /\ last[BidId].path = "cancel"
    /\ last[BidId].log # <<>>
    /\ last[BidId].log[Len(last[BidId].log)].kind = "cancel"
    /\ last[BidId].log[Len(last[BidId].log)].outcome = "order not found"
    /\ last[BidId].log[Len(last[BidId].log)].cool
    /\ CacheGet(quotes, BidId).status = "unknown"
    /\ \E i \in DOMAIN uq : uq[i].pc = "call" /\ uq[i].side = AskId

\* C29: for each side the three cooldown fields are set together and then
\* last_fill_time <= cooldown_until <= recovery_until; and, the clock never
\* going back, no step lowers or unsets cooldown_until or recovery_until.
C29_CooldownFieldsOrderedAndMonotonic ==
    /\ [](\A f \in {<<last_bid_fill_time, bid_cooldown_until, bid_recovery_until>>,
                     <<last_ask_fill_time, ask_cooldown_until, ask_recovery_until>>} :
            \/ f[1] = None /\ f[2] = None /\ f[3] = None
            \/ /\ f[1] # None /\ f[2] # None /\ f[3] # None
               /\ f[1][1] <= f[2][1] /\ f[2][1] <= f[3][1])
    /\ [][/\ now' >= now
          /\ \A u \in {<<bid_cooldown_until, bid_cooldown_until'>>,
                        <<bid_recovery_until, bid_recovery_until'>>,
                        <<ask_cooldown_until, ask_cooldown_until'>>,
                        <<ask_recovery_until, ask_recovery_until'>>} :
                u[1] # None => u[2] # None /\ u[2][1] >= u[1][1]]_vars

\* The bid was filled at time 0 together with the ask and again at time 100.
C29_Witness ==
    /\ last_ask_fill_time = <<0>>
    /\ last_bid_fill_time = <<100>>
    /\ bid_cooldown_until = <<100 + bid_fill_cooldown>>
    /\ bid_recovery_until = <<100 + bid_fill_cooldown + bid_fill_recovery>>

\* C30: when quote() has used up its quote_max_retries lifecycles, main()
\* first waits and then starts again with a new client and Quoter, every
\* time: the step that starts again after the last lifecycle is taken from
\* main()'s sleep, it leaves a newly constructed Quoter, and it always comes.
C30_MainWaitsThenRestarts ==
    /\ [][retry_count = quote_max_retries /\ retry_count' # retry_count
            => /\ main_pc = "sleep"
               /\ retry_count' = 0 /\ quotes' = <<>> /\ position' = None
               /\ dispatcher' = "idle" /\ ~authenticated']_vars
    /\ (retry_count = quote_max_retries ~> retry_count = 0)

\* C31: no background task of quote() ever has two live instances, and when
\* quote() goes to its next lifecycle or returns, none is live; and whenever
\* cleanup() finds the receiver task not done, the cancellation of that task
\* is the first thing it requests, before cancel_session and disconnect.
C31_PeriodicTasksCancelledBeforeRetry ==
    /\ [](\A n \in 1..Len(PeriodicTasks) : periodic.alive[n] <= 1)
    /\ [][retry_count' = retry_count + 1
            => \A n \in 1..Len(PeriodicTasks) :
                  periodic.alive[n] = 0 /\ periodic'.alive[n] = 0]_vars
    /\ [][ReceiverAlive /\ cleanup_log' # cleanup_log
            => cleanup_log'[Len(cleanup_log) + 1] = "receiver_task.cancel"]_vars
    /\ [](\A i, j \in 1..Len(cleanup_log) :
            /\ cleanup_log[i] = "receiver_task.cancel"
            /\ cleanup_log[j] \in {"cancel_session", "disconnect"}
            => i < j)

\* quote() is in its second lifecycle, with one instance of each background
\* task, when the process is interrupted: cleanup() cancelled the receiver
\* and then tore the session down.
C31_Witness ==
    /\ retry_count = 1
    /\ main_pc = "ended"
    /\ consecutive_errors = 2
    /\ \A n \in 1..Len(PeriodicTasks) : periodic.alive[n] = 1
    /\ cleanup_log = <<"receiver_task.cancel", "cancel_session", "disconnect">>

\* The frame at the head of the queue is malformed: json.loads rejects it or
\* its handling raises.
MalformedNext ==
    /\ CanDispatch
    /\ ~QueueGet(message_queue).sentinel
    /\ ~QueueGet(message_queue).msg.parsable \/ HandlingRaises(QueueGet(message_queue).msg)

\* C32: taking a malformed frame from the queue changes nothing but the
\* queue: the dispatcher stays in its loop with the frames behind it next in
\* line, and the frames handed to process_message are at all times the
\* received ones in the order of their arrival, none left out.
C32_MalformedFrameSkipped ==
    /\ [][MalformedNext /\ message_queue' = QueueRest(message_queue)
            => /\ dispatcher' = "running" /\ is_running'
               /\ dispLog' = Append(dispLog, QueueGet(message_queue).id)
               /\ UNCHANGED <<quoterVars, coolVars, uq, receiver>>]_vars
    /\ [](/\ dispLog = [i \in 1..Len(dispLog) |-> i]
          /\ Len(dispLog) + Len(message_queue) = received
          /\ dispatcher # "ended")

\* A frame json.loads rejects and a frame whose handling raised were taken,
\* and the ticker result behind them has started a quote cycle.
C32_Witness ==
    /\ dispLog = <<1, 2, 3>>
    /\ Len(uq) = 1 /\ uq[1].trigger = "ticker"
    /\ position = None

\* The dispatcher hands a frame json.loads accepts to process_message.
Processing ==
    /\ CanDispatch
    /\ ~QueueGet(message_queue).sentinel
    /\ QueueGet(message_queue).msg.parsable
    /\ dispLog' # dispLog

\* No handler acts in the step.
NoHandlerActs == UNCHANGED <<quoterVars, coolVars, uq, rec>>

\* C33: a parsed frame reaches at most one handler, chosen by its first
\* matching key.  With channel_name the handler of that channel acts on the
\* notification payload; otherwise with result the account summary handler
\* acts when the result holds account_number, the ticker handler when it
\* holds both best prices, and none otherwise; otherwise with error the
\* error callback acts on the error payload; any other frame reaches none.
C33_RoutedByFirstKey ==
    [][Processing =>
        LET m == QueueGet(message_queue).msg
        IN  IF "channel_name" \in m.keys
            THEN /\ OrderState' = IF m.channel_name = "session.orders"
                                  THEN HandleOrdersUpdate(OrderState, m.notification, now)
                                  ELSE OrderState
                 /\ position' = IF m.channel_name = "account.portfolio"
                                THEN HandlePortfolioUpdate(position, m.notification)
                                ELSE position
                 /\ uq' = IF m.channel_name = "trades"
                          THEN OnTradeUpdate(uq, TradeCallbacks(m.notification))
                          ELSE uq
                 /\ UNCHANGED <<mid, current_volatility, rec>>
            ELSE IF "result" \in m.keys
            THEN IF "account_number" \in m.result.keys
                 THEN NoHandlerActs
                 ELSE IF {"best_bid_price", "best_ask_price"} \subseteq m.result.keys
                 THEN /\ uq' = Append(uq, NewTask(RDiv(RAdd(m.result.best_bid_price,
                                                            m.result.best_ask_price), Num(2)),
                                                  m.result.best_bid_price,
                                                  m.result.best_ask_price, "ticker"))
                      /\ UNCHANGED <<quoterVars, coolVars, rec>>
                 ELSE NoHandlerActs
            ELSE IF "error" \in m.keys
            THEN /\ rec' = OnExchangeError(m.error = "order not found")
                 /\ UNCHANGED <<quoterVars, coolVars, uq>>
            ELSE NoHandlerActs]_vars

\* The notification has an entry for the quoted instrument.
HoldsOwnInstrument(notification) ==
    \E k \in DOMAIN notification : notification[k].instrument_name = OwnInstrument

\* C34: the position is None at startup and is changed only by the dispatch
\* of a portfolio notification that has an entry for the quoted instrument;
\* every other frame leaves it as it is.  While it is None no quote cycle has
\* issued an exchange call: every task is still to start or has ended with
\* no call made.
C34_PositionOnlyFromPortfolio ==
    /\ position = None
    /\ [][position' # position =>
            /\ Dispatching("account.portfolio")
            /\ HoldsOwnInstrument(QueueGet(message_queue).msg.notification)]_vars
    /\ [](position = None =>
            \A i \in DOMAIN uq : uq[i].pc \in {"spawned", "done"} /\ uq[i].log = <<>>)

\* Three frames were dispatched, a ticker result among them, and the position
\* is still unknown: the quote cycle ended without a call.
C34_Witness ==
    /\ position = None
    /\ Len(dispLog) = 3
    /\ \E i \in DOMAIN uq : uq[i].pc = "done" /\ uq[i].path = "position unknown"

\* C35: the sizes computed for a position inside the limits keep it there:
\* position + bid_size <= max_position and position - ask_size >=
\* -max_position, also when the room left to a limit is no whole number of
\* size ticks.
C35_SizesKeepPositionInsideLimits ==
    calc # <<>> /\ calc.f = "sizes" =>
        /\ RLe(RAdd(calc.position, calc.bid_size), max_position)
        /\ RLe(RNeg(max_position), RSub(calc.position, calc.ask_size))

\* (|P clamped to the limits| / max_position) squared
SkewFactor(P) ==
    LET ratio == IF RLt(max_position, RAbs(P)) THEN Num(1) ELSE RDiv(RAbs(P), max_position)
    IN  RMul(ratio, ratio)

\* C36: a quote cycle widens only the spread of the side that would add to
\* the position.  Outside a recovery period the bid spread is base_spread *
\* (1 + position_factor) for a long position and base_spread otherwise, the
\* ask spread is widened for a short position and base_spread otherwise;
\* the factor is the same for +p and -p and never exceeds 1.
C36_SkewWidensTheAddingSide ==
    [][\A i \in DOMAIN uq :
          (Starting(i) /\ position # None /\ ~(BidInCooldown /\ AskInCooldown))
          => LET base_spread == BaseSpread(current_volatility)
                 widened == RMul(base_spread, RAdd(Num(1), SkewFactor(position)))
             IN  /\ PositionFactor(position) = SkewFactor(position)
                 /\ PositionFactor(RNeg(position)) = PositionFactor(position)
                 /\ RLe(PositionFactor(position), Num(1))
                 /\ ~BidInRecovery =>
                        last_bid_spread' = IF RLt(Num(0), position) THEN widened
                                           ELSE base_spread
                 /\ ~AskInRecovery =>
                        last_ask_spread' = IF RLt(position, Num(0)) THEN widened
                                           ELSE base_spread]_vars

\* A cycle computed at half the limit with the volatility unknown: the bid
\* spread is 0.5 * (1 + 1/4) and the ask spread 0.5.
C36_Witness ==
    /\ position = <<3, 20>>
    /\ current_volatility = None
    /\ last_bid_spread = <<5, 8>>
    /\ last_ask_spread = <<1, 2>>
    /\ \E i \in DOMAIN uq : uq[i].pc # "spawned"

\* C37: every recovery run comes to its end, and a run ends with the flag
\* reset: once every task spawned has ended the flag is False.  A run whose
\* cancel_all raised ends in the same step like any other, with the flag
\* reset, the cache as it was, and the dispatcher and the quoting tasks
\* untouched by the error.
C37_RecoveryEndsWithFlagReset ==
    /\ \A j \in 1..MaxRecoveries :
          (j \in DOMAIN rec) ~> (j \in DOMAIN rec /\ rec[j] = "done")
    /\ []((\A j \in DOMAIN rec : rec[j] \in {"spawned", "done"}) => ~recovering_from_desync)
    /\ [][\A j \in DOMAIN rec :
            /\ rec[j] # "done" /\ rec'[j] = "done" => ~recovering_from_desync'
            /\ rec[j] = "cancel_all" /\ rec'[j] = "done"
                  => UNCHANGED <<quotes, pipeVars, uq>>]_vars

\* A run has ended with the flag reset while the cache holds the order a
\* notification reported: cancel_all raised and nothing was cleared.
C37_Witness ==
    /\ rec = <<"done">>
    /\ ~recovering_from_desync
    /\ BidId \in DOMAIN quotes
    /\ dispatcher = "running"

\* An awaited call of connect_and_authenticate comes back in the step.
ConnectStep == conn.pc \in {Steps[k] : k \in DOMAIN Steps} /\ conn' # conn

\* C38: connect_and_authenticate returns True only with the signal set, in
\* the step in which private_subscribe succeeded, and False only with the
\* signal clear; every attempt that fails leaves the signal clear; while no
\* call of the function is in progress the last result and the signal agree.
C38_ResultAgreesWithSignal ==
    /\ [][ConnectStep =>
            /\ conn'.pc = "returned" => (conn'.result = "True" <=> authenticated')
            /\ conn'.pc = "returned" /\ conn'.result = "True" =>
                   /\ conn.pc = "private_subscribe"
                   /\ conn'.calls[Len(conn'.calls)].outcome = "ok"
            /\ conn'.calls[Len(conn'.calls)].outcome \notin {"ok", "pending"} =>
                   ~authenticated']_vars
    /\ [](conn.pc = "returned" => (conn.result = "True" <=> authenticated))

\* The second call of connect_and_authenticate began with the signal set by
\* the first and returned False: the signal is clear.
C38_Witness ==
    /\ conn.invocations = 2
    /\ conn.pc = "returned"
    /\ conn.result = "False"
    /\ conn.was_connected
    /\ ~authenticated

\* C39: a side's fill time, cooldown_until and recovery_until change only in
\* the dispatch of an order notification that reports the status filled for
\* that side's fixed client order id.  No other status, no other id, no
\* other frame and no step of a recovery run, the cache clear included,
\* changes them.
C39_CooldownOnlyFromOwnFills ==
    [][/\ <<last_bid_fill_time, bid_cooldown_until, bid_recovery_until>>'
            # <<last_bid_fill_time, bid_cooldown_until, bid_recovery_until>>
          => /\ Dispatching("session.orders")
             /\ ReportsFill(QueueGet(message_queue).msg.notification, BidId)
       /\ <<last_ask_fill_time, ask_cooldown_until, ask_recovery_until>>'
            # <<last_ask_fill_time, ask_cooldown_until, ask_recovery_until>>
          => /\ Dispatching("session.orders")
             /\ ReportsFill(QueueGet(message_queue).msg.notification, AskId)]_vars

\* The bid was filled, a fill of a foreign order was dispatched after it, and
\* a recovery run has cleared the cache: the bid's windows stand and the ask
\* has none.
C39_Witness ==
    /\ Len(dispLog) = 2
    /\ rec = <<"done">>
    /\ quotes = <<>>
    /\ bid_cooldown_until = <<now + bid_fill_cooldown>>
    /\ ask_cooldown_until = None /\ last_ask_fill_time = None

\* C40: the prices computed for a ticker whose best bid is not above its
\* best ask never cross: the bid price is strictly below the ask price,
\* whatever the volatility, the position and the recovery state of either
\* side are.
C40_BidBelowAsk ==
    (calc # <<>> /\ calc.f = "prices" /\ RLe(calc.best_bid, calc.best_ask))
        => RLt(calc.bid_price, calc.ask_price)

\* A locked book at 2 with both sides in recovery: both computed prices round
\* to 2 and the crossing protection moves them to 1 and 3.
C40_Witness ==
    /\ calc # <<>> /\ calc.f = "prices"
    /\ calc.best_bid = Num(2) /\ calc.best_ask = Num(2)
    /\ calc.bid_in_recovery /\ calc.ask_in_recovery
    /\ calc.bid_price = Num(1)
    /\ calc.ask_price = Num(3)

====
